---- MODULE Spec2Model ----
(***************************************************************************)
(* Model of the imaging-department backend (backend/app): the relational   *)
(* store (usuarios, pacientes, examenes_base and its three specialization  *)
(* tables), the request handlers of routers/*.py and the pure helpers of   *)
(* utils/*.py and schemas/examen.py.                                       *)
(*                                                                         *)
(* A handler is one action: dependency resolution (authentication, role),  *)
(* request validation, the handler body and its commit.  A request that    *)
(* raises leaves the store as its last commit left it (get_db closes the   *)
(* session, which rolls the open transaction back).                        *)
(***************************************************************************)
EXTENDS Integers, Sequences, FiniteSets, TLC

VARIABLES
    usuarios,        \* table usuarios
    pacientes,       \* table pacientes
    examenes_base,   \* table examenes_base
    examenes_tac,    \* table examenes_tac
    examenes_rx,     \* table examenes_rx
    examenes_eco,    \* table examenes_eco
    seq_usuario,     \* next value of usuarios.id
    seq_paciente,    \* next value of pacientes.id
    seq_examen,      \* next value of examenes_base.id
    reloj,           \* datetime.utcnow(), as a logical clock
    sesiones,        \* requests in flight (handlers run step by step)
    puro,            \* the inputs and the result of a pure helper applied on its own
    credenciales,    \* the access tokens issued by login so far
    resp             \* the last request served and its response

db == <<usuarios, pacientes, examenes_base, examenes_tac, examenes_rx, examenes_eco,
        seq_usuario, seq_paciente, seq_examen, reloj>>

vars == <<usuarios, pacientes, examenes_base, examenes_tac, examenes_rx, examenes_eco,
          seq_usuario, seq_paciente, seq_examen, reloj, sesiones, puro, credenciales, resp>>

----------------------------------------------------------------------------
(* Bounds of the model *)

MaxExamenes == 2
MaxPacientes == 2
MaxUsuarios == 3

----------------------------------------------------------------------------
(* Optional values: None, or Some(x) *)

None == <<>>
Some(x) == <<x>>
Val(o) == o[1]

(* datetime.date, as the integer yyyymmdd: the order of the integers is the
   order of the dates *)
Fecha(y, m, d) == y * 10000 + m * 100 + d
Anio(f) == f \div 10000
Mes(f) == (f \div 100) % 100
Dia(f) == f % 100

(* Python's truth value of an Optional[str] held as a sequence of characters *)
Vacio(o) == o = None \/ Val(o) = <<>>

----------------------------------------------------------------------------
(* utils/helpers.py *)

extraer_mes_anio(fecha) == <<Mes(fecha), Anio(fecha)>>

limpiar_rut(rut) == SelectSeq(rut, LAMBDA c : c \notin {".", "-"})

----------------------------------------------------------------------------
(* utils/validators.py *)

Digitos == {"0", "1", "2", "3", "4", "5", "6", "7", "8", "9"}

int(c) ==
    CASE c = "0" -> 0 [] c = "1" -> 1 [] c = "2" -> 2 [] c = "3" -> 3 [] c = "4" -> 4
      [] c = "5" -> 5 [] c = "6" -> 6 [] c = "7" -> 7 [] c = "8" -> 8 [] c = "9" -> 9

str(n) ==
    CASE n = 0 -> "0" [] n = 1 -> "1" [] n = 2 -> "2" [] n = 3 -> "3" [] n = 4 -> "4"
      [] n = 5 -> "5" [] n = 6 -> "6" [] n = 7 -> "7" [] n = 8 -> "8" [] n = 9 -> "9"

(* str.upper() and str.lower(), on the letters the inputs use *)
upper_c(c) ==
    CASE c = "k" -> "K" [] c = "s" -> "S" [] c = "i" -> "I" [] c = "n" -> "N"
      [] c = "c" -> "C" [] c = "r" -> "R" [] c = "e" -> "E" [] c = "a" -> "A"
      [] c = "t" -> "T" [] OTHER -> c

lower_c(c) ==
    CASE c = "K" -> "k" [] c = "S" -> "s" [] c = "I" -> "i" [] c = "N" -> "n"
      [] c = "C" -> "c" [] c = "R" -> "r" [] c = "E" -> "e" [] c = "A" -> "a"
      [] c = "T" -> "t" [] OTHER -> c

upper(s) == [i \in 1..Len(s) |-> upper_c(s[i])]
lower(s) == [i \in 1..Len(s) |-> lower_c(s[i])]

(* Characters that satisfy str.isdigit() and that int() rejects with ValueError:
   the superscript digits; "^2" stands for the one character U+00B2 *)
DigitosSinValor == {"^2"}

isdigit(s) == Len(s) > 0 /\ \A i \in 1..Len(s) : s[i] \in Digitos \cup DigitosSinValor

(* the loop of validar_rut_chileno over reversed(rut_numeros): the digits i, i-1, ..., 1
   still to consume, with the running suma and multiplo *)
RECURSIVE suma_rut(_, _, _, _)
suma_rut(s, i, suma, multiplo) ==
    IF i = 0 THEN suma
    ELSE suma_rut(s, i - 1, suma + int(s[i]) * multiplo,
                  IF multiplo + 1 = 8 THEN 2 ELSE multiplo + 1)

dv_calculado(rut_numeros) ==
    LET resto == suma_rut(rut_numeros, Len(rut_numeros), 0, 2) % 11
        dv == 11 - resto
    IN  IF dv = 11 THEN "0" ELSE IF dv = 10 THEN "K" ELSE str(dv)

(* validar_rut_chileno without the comparison of the check character *)
validar_rut_chileno_sin_dv(rut0) ==
    LET rut == upper(limpiar_rut(rut0))
    IN  IF Len(rut) < 8 THEN FALSE
        ELSE isdigit(SubSeq(rut, 1, Len(rut) - 1))

validar_rut_chileno(rut0) ==
    LET rut == upper(limpiar_rut(rut0))
    IN  IF Len(rut) < 8 THEN FALSE
        ELSE LET rut_numeros == SubSeq(rut, 1, Len(rut) - 1)
                 digito_verificador == rut[Len(rut)]
             IN  IF ~isdigit(rut_numeros) THEN FALSE
                 ELSE digito_verificador = dv_calculado(rut_numeros)

(* The call of validar_rut_chileno as the caller sees it: the ValueError of
   int(digito) inside the loop propagates, otherwise the boolean is returned *)
llamar_validar_rut_chileno(rut0) ==
    LET rut == upper(limpiar_rut(rut0))
        rut_numeros == SubSeq(rut, 1, Len(rut) - 1)
    IN  IF /\ Len(rut) >= 8
           /\ isdigit(rut_numeros)
           /\ \E i \in 1..Len(rut_numeros) : rut_numeros[i] \in DigitosSinValor
        THEN [excepcion |-> Some("ValueError"), retorno |-> None]
        ELSE [excepcion |-> None, retorno |-> Some(validar_rut_chileno(rut0))]

(* calcular_edad decrementing on the birthday too *)
calcular_edad_cumpleanos(fecha_nacimiento, fecha_referencia) ==
    LET edad == Anio(fecha_referencia) - Anio(fecha_nacimiento)
    IN  IF Mes(fecha_referencia) < Mes(fecha_nacimiento)
           \/ (Mes(fecha_referencia) = Mes(fecha_nacimiento)
               /\ Dia(fecha_referencia) <= Dia(fecha_nacimiento))
        THEN edad - 1
        ELSE edad

calcular_edad(fecha_nacimiento, fecha_referencia) ==
    LET edad == Anio(fecha_referencia) - Anio(fecha_nacimiento)
    IN  IF Mes(fecha_referencia) < Mes(fecha_nacimiento)
           \/ (Mes(fecha_referencia) = Mes(fecha_nacimiento)
               /\ Dia(fecha_referencia) < Dia(fecha_nacimiento))
        THEN edad - 1
        ELSE edad

----------------------------------------------------------------------------
(* Seed rows of the catalog tables the exams reference (models/catalogos.py) *)

previsiones == {1, 2}
personal_medico == {1, 2, 3}

(* Prevision.nombre *)
nombre_prevision == (1 :> "FONASA") @@ (2 :> "ISAPRE")

(* PersonalMedico.nombre, which no constraint makes unique: two of the physicians
   bear the same name *)
nombre_medico == (1 :> "Soto") @@ (2 :> "Soto") @@ (3 :> "Rojas")

Atenciones == {"Abierta", "Cerrada", "Urgencia"}
Contratos == {"Empresa Externa", "Institucional"}
Tipos == {"TAC", "RX", "ECO"}

----------------------------------------------------------------------------
(* middleware/auth_middleware.py.  A credential is None (missing or invalid)
   or Some(uid), a token whose "sub" is uid. *)

Aceptado == [status |-> 200, detail |-> ""]
Error(status, detail) == [status |-> status, detail |-> detail]

(* utils/security.py: the hash of a password is opaque and matches that password
   only; an access token carries the id and role of the user and its expiry, and
   decodes to its payload while its signature is the server's and it has not
   expired.  A request without a token carries None. *)
get_password_hash(password) == <<"hash", password>>

verify_password(plain_password, hashed_password) ==
    hashed_password = get_password_hash(plain_password)

create_access_token(data, expires_delta) ==
    [sub |-> data.sub, rol |-> data.rol, exp |-> reloj + expires_delta,
     firma |-> "servidor"]

decode_access_token(token) ==
    IF token = None THEN None
    ELSE IF Val(token).firma # "servidor" \/ Val(token).exp <= reloj THEN None
    ELSE Some(Val(token).sub)

UsuarioPorId(uid) == CHOOSE u \in usuarios : u.id = uid

(* get_current_user without the check of usuario.activo *)
get_current_user_sin_activo(tok) ==
    IF tok = None THEN Error(401, "No se pudo validar las credenciales")
    ELSE IF ~\E u \in usuarios : u.id = Val(tok)
    THEN Error(401, "No se pudo validar las credenciales")
    ELSE Aceptado

get_current_user(tok) ==
    IF tok = None THEN Error(401, "No se pudo validar las credenciales")
    ELSE IF ~\E u \in usuarios : u.id = Val(tok)
    THEN Error(401, "No se pudo validar las credenciales")
    ELSE IF ~UsuarioPorId(Val(tok)).activo
    THEN Error(403, "Usuario inactivo. Contacta al administrador.")
    ELSE Aceptado

(* require_admin without the check of the role *)
require_admin_sin_rol(tok) == get_current_user(tok)

require_admin(tok) ==
    LET auth == get_current_user(tok)
    IN  IF auth.status # 200 THEN auth
        ELSE IF UsuarioPorId(Val(tok)).rol # "administrador"
        THEN Error(403, "No tienes permisos suficientes. Solo administradores.")
        ELSE Aceptado

require_ingresador_o_admin(tok) ==
    LET auth == get_current_user(tok)
    IN  IF auth.status # 200 THEN auth
        ELSE IF UsuarioPorId(Val(tok)).rol \notin {"ingresador", "administrador"}
        THEN Error(403, "No tienes permisos suficientes")
        ELSE Aceptado

----------------------------------------------------------------------------
(* schemas/examen.py *)

SinCreatinina == <<"s", "i", "n", " ", "c", "r", "e", "a", "t", "i", "n", "i", "n", "a">>

(* validar_tac without the rule of the dates *)
validar_tac_sin_fechas(d) ==
    IF ~Vacio(d.vfge) /\ lower(Val(d.vfge)) # SinCreatinina /\ d.premedicado = None
    THEN "Premedicado es obligatorio cuando VFGE tiene un valor numerico"
    ELSE ""

(* validar_tac comparing vfge with the sentinel as written, without lower() *)
validar_tac_sin_lower(d) ==
    IF d.fecha_solicitud > d.fecha_realizacion
    THEN "Fecha de solicitud no puede ser posterior a fecha de realizacion"
    ELSE IF ~Vacio(d.vfge) /\ Val(d.vfge) # SinCreatinina /\ d.premedicado = None
    THEN "Premedicado es obligatorio cuando VFGE tiene un valor numerico"
    ELSE ""

(* ExamenTACEspecifico.validar_tac: the message of the ValueError raised, "" when
   the payload passes *)
validar_tac(d) ==
    IF d.fecha_solicitud > d.fecha_realizacion
    THEN "Fecha de solicitud no puede ser posterior a fecha de realizacion"
    ELSE IF ~Vacio(d.vfge) /\ lower(Val(d.vfge)) # SinCreatinina /\ d.premedicado = None
    THEN "Premedicado es obligatorio cuando VFGE tiene un valor numerico"
    ELSE ""

(* ExamenBaseData: the patterns of atencion and contrato *)
ExamenBaseData(d) ==
    IF d.atencion \notin Atenciones THEN "atencion"
    ELSE IF d.contrato \notin Contratos THEN "contrato"
    ELSE ""

ExamenTACCreate(d) ==
    IF ExamenBaseData(d) # "" THEN ExamenBaseData(d) ELSE validar_tac(d)

----------------------------------------------------------------------------
(* The response of a request.  A request that raises changes nothing after its
   last commit. *)

Responder(op, tok, req, status, detail, body) ==
    resp' = [op |-> op, status |-> status, detail |-> detail, body |-> body]

Rechazar(op, tok, req, err) ==
    /\ Responder(op, tok, req, err.status, err.detail, <<>>)
    /\ UNCHANGED <<db, sesiones, puro, credenciales>>

Tiene(update_data, campo) == campo \in DOMAIN update_data

----------------------------------------------------------------------------
(* The constraints of the tables (models/*.py), as the store enforces them on
   flush and commit *)

(* pacientes.rut is unique *)
pacientes_rechaza(tabla, fila) == \E p \in tabla : p.rut = fila.rut

(* examenes_base: the foreign key of prevision_id, check_atencion, check_mes *)
examenes_base_rechaza(fila) ==
    \/ (fila.prevision_id # None /\ Val(fila.prevision_id) \notin previsiones)
    \/ fila.atencion \notin Atenciones
    \/ fila.mes_realizacion \notin 1..12

(* examenes_tac: the foreign key of medico_solicitante_id *)
examenes_tac_rechaza(fila) ==
    fila.medico_solicitante_id # None /\ Val(fila.medico_solicitante_id) \notin personal_medico

----------------------------------------------------------------------------
(* routers/examenes.py: the patient registry *)

(* SELECT ... WHERE rut = rut_limpio: the rows found *)
buscar_paciente(tabla, rut_limpio) == {p \in tabla : p.rut = rut_limpio}

(* storing the supplied birth date whatever the stored one *)
guarda_fecha_nacimiento_siempre(paciente, fecha_nac) == fecha_nac # None

(* if fecha_nac and not paciente.fecha_nacimiento *)
guarda_fecha_nacimiento(paciente, fecha_nac) ==
    fecha_nac # None /\ paciente.fecha_nacimiento = None

(* The outcome of obtener_o_crear_paciente on the committed table: the status
   (400 raised, 200 returned), the table and sequence it leaves committed, and the
   id of the patient returned *)
obtener_o_crear_paciente(tabla, seq, rut, nombre, fecha_nac) ==
    LET rut_limpio == limpiar_rut(rut)
        hallados == buscar_paciente(tabla, rut_limpio)
    IN  IF ~validar_rut_chileno(rut_limpio)
        THEN [status |-> 400, detail |-> "RUT invalido", pacientes |-> tabla,
              seq |-> seq, id |-> 0]
        ELSE IF hallados # {}
        THEN LET paciente == CHOOSE p \in hallados : TRUE
             IN  IF guarda_fecha_nacimiento(paciente, fecha_nac)
                 THEN [status |-> 200, detail |-> "",
                       pacientes |-> (tabla \ {paciente})
                           \cup {[paciente EXCEPT !.fecha_nacimiento = fecha_nac]},
                       seq |-> seq, id |-> paciente.id]
                 ELSE [status |-> 200, detail |-> "", pacientes |-> tabla,
                       seq |-> seq, id |-> paciente.id]
        ELSE IF Vacio(nombre)
        THEN [status |-> 400, detail |-> "Debe proporcionar el nombre del paciente",
              pacientes |-> tabla, seq |-> seq, id |-> 0]
        ELSE [status |-> 200, detail |-> "",
              pacientes |-> tabla \cup {[id |-> seq, rut |-> rut_limpio,
                                         nombre_completo |-> Val(nombre),
                                         fecha_nacimiento |-> fecha_nac]},
              seq |-> seq + 1, id |-> seq]

----------------------------------------------------------------------------
(* routers/examenes.py: registration *)

NuevoExamenBase(tipo, d, paciente_id, uid) ==
    [id |-> seq_examen, tipo_examen |-> tipo,
     fecha_realizacion |-> d.fecha_realizacion, atencion |-> d.atencion,
     prevision_id |-> Some(d.prevision_id), paciente_id |-> paciente_id,
     contrato |-> Some(d.contrato),
     mes_realizacion |-> extraer_mes_anio(d.fecha_realizacion)[1],
     anio_realizacion |-> extraer_mes_anio(d.fecha_realizacion)[2],
     created_by |-> Some(uid), updated_by |-> Some(uid), deleted_at |-> None,
     en_revision |-> FALSE, motivo_revision |-> None]

NuevoExamenTAC(d) ==
    [examen_base_id |-> seq_examen, fecha_solicitud |-> d.fecha_solicitud,
     fecha_nacimiento |-> d.fecha_nacimiento,
     edad |-> IF d.fecha_nacimiento # None
              THEN Some(calcular_edad(Val(d.fecha_nacimiento), d.fecha_realizacion))
              ELSE None,
     vfge |-> d.vfge, premedicado |-> d.premedicado,
     medico_solicitante_id |-> d.medico_solicitante_id]

NuevoExamenRX(d) ==
    [examen_base_id |-> seq_examen, hora_realizacion |-> d.hora_realizacion]

NuevoExamenECO(d) ==
    [examen_base_id |-> seq_examen, diagnostico_id |-> d.diagnostico_id]

ExamenResponse(base) ==
    [id |-> base.id, tipo_examen |-> base.tipo_examen,
     fecha_realizacion |-> base.fecha_realizacion,
     mes_realizacion |-> base.mes_realizacion,
     anio_realizacion |-> base.anio_realizacion, paciente_id |-> base.paciente_id]

ExamenTACResponse(base, tac) ==
    [id |-> base.id, tipo_examen |-> base.tipo_examen,
     fecha_realizacion |-> base.fecha_realizacion,
     mes_realizacion |-> base.mes_realizacion,
     anio_realizacion |-> base.anio_realizacion, paciente_id |-> base.paciente_id,
     fecha_solicitud |-> tac.fecha_solicitud, edad |-> tac.edad]

(* The part of the three crear_examen_* after the patient is resolved: the base row
   is flushed, then the specialization row added, and both committed together.
   `rechaza` is whether the store rejects the specialization row. *)
PersistirExamen(op, tok, d, base, rechaza, body) ==
    IF examenes_base_rechaza(base) \/ rechaza
    THEN /\ Responder(op, tok, d, 500, "IntegrityError", <<>>)
         /\ UNCHANGED <<examenes_base, seq_examen>>
    ELSE /\ examenes_base' = examenes_base \cup {base}
         /\ seq_examen' = seq_examen + 1
         /\ Responder(op, tok, d, 201, "", body)

crear_examen_tac(tok, d) ==
    LET auth == require_ingresador_o_admin(tok)
        r == obtener_o_crear_paciente(pacientes, seq_paciente, d.paciente_rut,
                                      d.paciente_nombre, d.fecha_nacimiento)
        base == NuevoExamenBase("TAC", d, r.id, Val(tok))
        tac == NuevoExamenTAC(d)
        ok == ~examenes_base_rechaza(base) /\ ~examenes_tac_rechaza(tac)
    IN  IF auth.status # 200 THEN Rechazar("crear_examen_tac", tok, d, auth)
        ELSE IF ExamenTACCreate(d) # ""
        THEN Rechazar("crear_examen_tac", tok, d, Error(422, ExamenTACCreate(d)))
        ELSE IF r.status # 200 THEN Rechazar("crear_examen_tac", tok, d, r)
        ELSE /\ pacientes' = r.pacientes
             /\ seq_paciente' = r.seq
             /\ PersistirExamen("crear_examen_tac", tok, d, base,
                                examenes_tac_rechaza(tac), ExamenTACResponse(base, tac))
             /\ examenes_tac' = IF ok THEN examenes_tac \cup {tac} ELSE examenes_tac
             /\ UNCHANGED <<usuarios, examenes_rx, examenes_eco, seq_usuario, reloj,
                            sesiones, puro, credenciales>>

crear_examen_rx(tok, d) ==
    LET auth == require_ingresador_o_admin(tok)
        r == obtener_o_crear_paciente(pacientes, seq_paciente, d.paciente_rut,
                                      d.paciente_nombre, None)
        base == NuevoExamenBase("RX", d, r.id, Val(tok))
        rx == NuevoExamenRX(d)
        ok == ~examenes_base_rechaza(base)
    IN  IF auth.status # 200 THEN Rechazar("crear_examen_rx", tok, d, auth)
        ELSE IF ExamenBaseData(d) # ""
        THEN Rechazar("crear_examen_rx", tok, d, Error(422, ExamenBaseData(d)))
        ELSE IF r.status # 200 THEN Rechazar("crear_examen_rx", tok, d, r)
        ELSE /\ pacientes' = r.pacientes
             /\ seq_paciente' = r.seq
             /\ PersistirExamen("crear_examen_rx", tok, d, base, FALSE,
                                ExamenResponse(base))
             /\ examenes_rx' = IF ok THEN examenes_rx \cup {rx} ELSE examenes_rx
             /\ UNCHANGED <<usuarios, examenes_tac, examenes_eco, seq_usuario, reloj,
                            sesiones, puro, credenciales>>

crear_examen_eco(tok, d) ==
    LET auth == require_ingresador_o_admin(tok)
        r == obtener_o_crear_paciente(pacientes, seq_paciente, d.paciente_rut,
                                      d.paciente_nombre, None)
        base == NuevoExamenBase("ECO", d, r.id, Val(tok))
        eco == NuevoExamenECO(d)
        ok == ~examenes_base_rechaza(base)
    IN  IF auth.status # 200 THEN Rechazar("crear_examen_eco", tok, d, auth)
        ELSE IF ExamenBaseData(d) # ""
        THEN Rechazar("crear_examen_eco", tok, d, Error(422, ExamenBaseData(d)))
        ELSE IF r.status # 200 THEN Rechazar("crear_examen_eco", tok, d, r)
        ELSE /\ pacientes' = r.pacientes
             /\ seq_paciente' = r.seq
             /\ PersistirExamen("crear_examen_eco", tok, d, base, FALSE,
                                ExamenResponse(base))
             /\ examenes_eco' = IF ok THEN examenes_eco \cup {eco} ELSE examenes_eco
             /\ UNCHANGED <<usuarios, examenes_tac, examenes_rx, seq_usuario, reloj,
                            sesiones, puro, credenciales>>

----------------------------------------------------------------------------
(* routers/examenes.py: update, soft delete, review flag *)

(* db.query(ExamenBase).filter(id, tipo_examen, deleted_at IS NULL) *)
buscar_examen(examen_id, tipo) ==
    {e \in examenes_base :
        e.id = examen_id /\ e.tipo_examen = tipo /\ e.deleted_at = None}

(* A supplied null for a column that is NOT NULL: the commit is rejected *)
NuloEnNoNulo(update_data, campos) ==
    \E c \in campos : Tiene(update_data, c) /\ update_data[c] = None

(* ActualizarBase without the recomputation of mes/anio *)
ActualizarBase_sin_recalculo(base, update_data, uid) ==
    [base EXCEPT
        !.fecha_realizacion = IF Tiene(update_data, "fecha_realizacion")
                                 /\ update_data.fecha_realizacion # None
                              THEN Val(update_data.fecha_realizacion) ELSE @,
        !.atencion = IF Tiene(update_data, "atencion") /\ update_data.atencion # None
                     THEN Val(update_data.atencion) ELSE @,
        !.prevision_id = IF Tiene(update_data, "prevision_id")
                         THEN update_data.prevision_id ELSE @,
        !.contrato = IF Tiene(update_data, "contrato")
                     THEN update_data.contrato ELSE @,
        !.updated_by = Some(uid)]

(* ActualizarBase writing every field of campos_base, the ones the request leaves
   out as null: examen_data.dict() without exclude_unset *)
ActualizarBase_sin_exclude_unset(base, update_data, uid) ==
    LET f == IF Tiene(update_data, "fecha_realizacion")
                /\ update_data.fecha_realizacion # None
             THEN Val(update_data.fecha_realizacion)
             ELSE base.fecha_realizacion
    IN  [base EXCEPT
            !.fecha_realizacion = f,
            !.atencion = IF Tiene(update_data, "atencion") /\ update_data.atencion # None
                         THEN Val(update_data.atencion) ELSE @,
            !.prevision_id = IF Tiene(update_data, "prevision_id")
                             THEN update_data.prevision_id ELSE None,
            !.contrato = IF Tiene(update_data, "contrato")
                         THEN update_data.contrato ELSE None,
            !.mes_realizacion = IF Tiene(update_data, "fecha_realizacion")
                                THEN extraer_mes_anio(f)[1] ELSE @,
            !.anio_realizacion = IF Tiene(update_data, "fecha_realizacion")
                                 THEN extraer_mes_anio(f)[2] ELSE @,
            !.updated_by = Some(uid)]

(* The loop over campos_base, the recomputation of mes/anio and updated_by *)
ActualizarBase(base, update_data, uid) ==
    LET f == IF Tiene(update_data, "fecha_realizacion")
                /\ update_data.fecha_realizacion # None
             THEN Val(update_data.fecha_realizacion)
             ELSE base.fecha_realizacion
    IN  [base EXCEPT
            !.fecha_realizacion = f,
            !.atencion = IF Tiene(update_data, "atencion") /\ update_data.atencion # None
                         THEN Val(update_data.atencion) ELSE @,
            !.prevision_id = IF Tiene(update_data, "prevision_id")
                             THEN update_data.prevision_id ELSE @,
            !.contrato = IF Tiene(update_data, "contrato")
                         THEN update_data.contrato ELSE @,
            !.mes_realizacion = IF Tiene(update_data, "fecha_realizacion")
                                THEN extraer_mes_anio(f)[1] ELSE @,
            !.anio_realizacion = IF Tiene(update_data, "fecha_realizacion")
                                 THEN extraer_mes_anio(f)[2] ELSE @,
            !.updated_by = Some(uid)]

(* The loop over campos_tac and the recomputation of edad, which reads the
   fecha_realizacion just written to the base row *)
ActualizarTAC(tac, update_data, fecha_realizacion) ==
    [tac EXCEPT
        !.fecha_solicitud = IF Tiene(update_data, "fecha_solicitud")
                               /\ update_data.fecha_solicitud # None
                            THEN Val(update_data.fecha_solicitud) ELSE @,
        !.fecha_nacimiento = IF Tiene(update_data, "fecha_nacimiento")
                             THEN update_data.fecha_nacimiento ELSE @,
        !.vfge = IF Tiene(update_data, "vfge") THEN update_data.vfge ELSE @,
        !.premedicado = IF Tiene(update_data, "premedicado")
                        THEN update_data.premedicado ELSE @,
        !.medico_solicitante_id = IF Tiene(update_data, "medico_solicitante_id")
                                  THEN update_data.medico_solicitante_id ELSE @,
        !.edad = IF Tiene(update_data, "fecha_nacimiento")
                    /\ update_data.fecha_nacimiento # None
                 THEN Some(calcular_edad(Val(update_data.fecha_nacimiento),
                                         fecha_realizacion))
                 ELSE @]

ActualizarRX(rx, update_data) ==
    [rx EXCEPT
        !.hora_realizacion = IF Tiene(update_data, "hora_realizacion")
                                /\ update_data.hora_realizacion # None
                             THEN Val(update_data.hora_realizacion) ELSE @]

ActualizarECO(eco, update_data) ==
    [eco EXCEPT
        !.diagnostico_id = IF Tiene(update_data, "diagnostico_id")
                           THEN update_data.diagnostico_id ELSE @]

actualizar_examen_tac(tok, examen_id, update_data) ==
    LET op == "actualizar_examen_tac"
        req == [examen_id |-> examen_id, update_data |-> update_data]
        auth == require_admin(tok)
        hallados == buscar_examen(examen_id, "TAC")
        examen_base == CHOOSE e \in hallados : TRUE
        filas_tac == {t \in examenes_tac : t.examen_base_id = examen_id}
        examen_tac == CHOOSE t \in filas_tac : TRUE
        base == ActualizarBase(examen_base, update_data, Val(tok))
        tac == ActualizarTAC(examen_tac, update_data, base.fecha_realizacion)
    IN  IF auth.status # 200 THEN Rechazar(op, tok, req, auth)
        ELSE IF hallados = {}
        THEN Rechazar(op, tok, req, Error(404, "Examen TAC no encontrado"))
        ELSE IF filas_tac = {}
                \/ NuloEnNoNulo(update_data, {"fecha_realizacion", "atencion",
                                              "fecha_solicitud"})
                \/ examenes_base_rechaza(base) \/ examenes_tac_rechaza(tac)
        THEN Rechazar(op, tok, req, Error(500, "Internal Server Error"))
        ELSE /\ examenes_base' = (examenes_base \ {examen_base}) \cup {base}
             /\ examenes_tac' = (examenes_tac \ {examen_tac}) \cup {tac}
             /\ Responder(op, tok, req, 200, "", ExamenTACResponse(base, tac))
             /\ UNCHANGED <<usuarios, pacientes, examenes_rx, examenes_eco, seq_usuario,
                            seq_paciente, seq_examen, reloj, sesiones, puro, credenciales>>

actualizar_examen_rx(tok, examen_id, update_data) ==
    LET op == "actualizar_examen_rx"
        req == [examen_id |-> examen_id, update_data |-> update_data]
        auth == require_admin(tok)
        hallados == buscar_examen(examen_id, "RX")
        examen_base == CHOOSE e \in hallados : TRUE
        filas_rx == {t \in examenes_rx : t.examen_base_id = examen_id}
        examen_rx == CHOOSE t \in filas_rx : TRUE
        base == ActualizarBase(examen_base, update_data, Val(tok))
        rx == ActualizarRX(examen_rx, update_data)
    IN  IF auth.status # 200 THEN Rechazar(op, tok, req, auth)
        ELSE IF hallados = {}
        THEN Rechazar(op, tok, req, Error(404, "Examen RX no encontrado"))
        ELSE IF filas_rx = {}
                \/ NuloEnNoNulo(update_data, {"fecha_realizacion", "atencion",
                                              "hora_realizacion"})
                \/ examenes_base_rechaza(base)
        THEN Rechazar(op, tok, req, Error(500, "Internal Server Error"))
        ELSE /\ examenes_base' = (examenes_base \ {examen_base}) \cup {base}
             /\ examenes_rx' = (examenes_rx \ {examen_rx}) \cup {rx}
             /\ Responder(op, tok, req, 200, "", ExamenResponse(base))
             /\ UNCHANGED <<usuarios, pacientes, examenes_tac, examenes_eco, seq_usuario,
                            seq_paciente, seq_examen, reloj, sesiones, puro, credenciales>>

actualizar_examen_eco(tok, examen_id, update_data) ==
    LET op == "actualizar_examen_eco"
        req == [examen_id |-> examen_id, update_data |-> update_data]
        auth == require_admin(tok)
        hallados == buscar_examen(examen_id, "ECO")
        examen_base == CHOOSE e \in hallados : TRUE
        filas_eco == {t \in examenes_eco : t.examen_base_id = examen_id}
        examen_eco == CHOOSE t \in filas_eco : TRUE
        base == ActualizarBase(examen_base, update_data, Val(tok))
        eco == ActualizarECO(examen_eco, update_data)
    IN  IF auth.status # 200 THEN Rechazar(op, tok, req, auth)
        ELSE IF hallados = {}
        THEN Rechazar(op, tok, req, Error(404, "Examen ECO no encontrado"))
        ELSE IF filas_eco = {}
                \/ NuloEnNoNulo(update_data, {"fecha_realizacion", "atencion"})
                \/ examenes_base_rechaza(base)
        THEN Rechazar(op, tok, req, Error(500, "Internal Server Error"))
        ELSE /\ examenes_base' = (examenes_base \ {examen_base}) \cup {base}
             /\ examenes_eco' = (examenes_eco \ {examen_eco}) \cup {eco}
             /\ Responder(op, tok, req, 200, "", ExamenResponse(base))
             /\ UNCHANGED <<usuarios, pacientes, examenes_tac, examenes_rx, seq_usuario,
                            seq_paciente, seq_examen, reloj, sesiones, puro, credenciales>>

(* eliminar_examen_tac, eliminar_examen_rx and eliminar_examen_eco differ in the
   type they filter on *)
EliminarExamen(op, tipo, tok, examen_id) ==
    LET req == [examen_id |-> examen_id]
        auth == require_admin(tok)
        hallados == buscar_examen(examen_id, tipo)
        examen_base == CHOOSE e \in hallados : TRUE
    IN  IF auth.status # 200 THEN Rechazar(op, tok, req, auth)
        ELSE IF hallados = {}
        THEN Rechazar(op, tok, req, Error(404, "Examen no encontrado"))
        ELSE /\ examenes_base' = (examenes_base \ {examen_base})
                    \cup {[examen_base EXCEPT !.deleted_at = Some(reloj),
                                              !.updated_by = Some(Val(tok))]}
             /\ reloj' = reloj + 1
             /\ Responder(op, tok, req, 204, "", <<>>)
             /\ UNCHANGED <<usuarios, pacientes, examenes_tac, examenes_rx, examenes_eco,
                            seq_usuario, seq_paciente, seq_examen, sesiones, puro, credenciales>>

eliminar_examen_tac(tok, examen_id) ==
    EliminarExamen("eliminar_examen_tac", "TAC", tok, examen_id)

eliminar_examen_rx(tok, examen_id) ==
    EliminarExamen("eliminar_examen_rx", "RX", tok, examen_id)

eliminar_examen_eco(tok, examen_id) ==
    EliminarExamen("eliminar_examen_eco", "ECO", tok, examen_id)

marcar_examen_revision(tok, examen_id, datos) ==
    LET op == "marcar_examen_revision"
        req == [examen_id |-> examen_id, datos |-> datos]
        auth == require_admin(tok)
        hallados == {e \in examenes_base : e.id = examen_id /\ e.deleted_at = None}
        examen == CHOOSE e \in hallados : TRUE
        nuevo == [examen EXCEPT
                    !.en_revision = datos.en_revision,
                    !.motivo_revision = IF datos.en_revision THEN datos.motivo ELSE None]
    IN  IF auth.status # 200 THEN Rechazar(op, tok, req, auth)
        ELSE IF hallados = {}
        THEN Rechazar(op, tok, req, Error(404, "Examen no encontrado"))
        ELSE /\ examenes_base' = (examenes_base \ {examen}) \cup {nuevo}
             /\ Responder(op, tok, req, 200, "",
                          [examen_id |-> nuevo.id, en_revision |-> nuevo.en_revision,
                           motivo |-> nuevo.motivo_revision])
             /\ UNCHANGED <<usuarios, pacientes, examenes_tac, examenes_rx, examenes_eco,
                            seq_usuario, seq_paciente, seq_examen, reloj, sesiones, puro, credenciales>>

listar_examenes_revision(tok, tipo_examen) ==
    LET op == "listar_examenes_revision"
        req == [tipo_examen |-> tipo_examen]
        auth == require_admin(tok)
        examenes == {e \in examenes_base :
                        /\ e.en_revision
                        /\ e.deleted_at = None
                        /\ (tipo_examen # None => e.tipo_examen = Val(tipo_examen))}
    IN  IF auth.status # 200 THEN Rechazar(op, tok, req, auth)
        ELSE /\ Responder(op, tok, req, 200, "",
                          [total |-> Cardinality(examenes),
                           examenes |-> {e.id : e \in examenes}])
             /\ UNCHANGED <<db, sesiones, puro, credenciales>>

----------------------------------------------------------------------------
(* routers/reportes.py: the export *)

(* One sheet of exportar_respaldo_excel: the non-deleted base rows of the period and
   type, joined with their specialization and patient rows *)
HojaExcel(tipo, especificos, anio, mes) ==
    {e.id : e \in {b \in examenes_base :
        /\ b.deleted_at = None
        /\ (anio # None /\ Val(anio) # 0 => b.anio_realizacion = Val(anio))
        /\ (mes # None /\ Val(mes) # 0 => b.mes_realizacion = Val(mes))
        /\ b.tipo_examen = tipo
        /\ \E x \in especificos : x.examen_base_id = b.id
        /\ \E p \in pacientes : p.id = b.paciente_id}}

exportar_respaldo_excel(tok, anio, mes) ==
    LET op == "exportar_respaldo_excel"
        req == [anio |-> anio, mes |-> mes]
        auth == require_admin(tok)
    IN  IF auth.status # 200 THEN Rechazar(op, tok, req, auth)
        ELSE /\ Responder(op, tok, req, 200, "",
                          [TAC |-> HojaExcel("TAC", examenes_tac, anio, mes),
                           RX |-> HojaExcel("RX", examenes_rx, anio, mes),
                           ECO |-> HojaExcel("ECO", examenes_eco, anio, mes)])
             /\ UNCHANGED <<db, sesiones, puro, credenciales>>

----------------------------------------------------------------------------
(* routers/examenes.py: the listings and the read by id.  A filter is None when the
   request omits it; `if x:` of the code is false for None, for 0 and for "". *)

(* if mes: / if anio: *)
Dado(o) == o # None /\ Val(o) # 0

(* if paciente_rut: *)
DadoTexto(o) == o # None /\ Val(o) # <<>>

(* The rows the query of listar_examenes_* selects before order_by: the join of the
   base rows of the type, not deleted, with their specialization rows, and the
   filters the request gives *)
ConsultaListado(tipo, especificos, f) ==
    {b \in examenes_base :
        /\ b.tipo_examen = tipo
        /\ b.deleted_at = None
        /\ \E x \in especificos : x.examen_base_id = b.id
        /\ (f.fecha_inicio # None => b.fecha_realizacion >= Val(f.fecha_inicio))
        /\ (f.fecha_fin # None => b.fecha_realizacion <= Val(f.fecha_fin))
        /\ (DadoTexto(f.paciente_rut)
            => \E p \in buscar_paciente(pacientes, limpiar_rut(Val(f.paciente_rut))) :
                  b.paciente_id = p.id)
        /\ (Dado(f.mes) => b.mes_realizacion = Val(f.mes))
        /\ (Dado(f.anio) => b.anio_realizacion = Val(f.anio))}

(* order_by(fecha_realizacion.desc()): every order of the rows the store may return,
   rows of equal date in any order *)
OrdenesPorFecha(filas) ==
    {orden \in [1..Cardinality(filas) -> filas] :
        /\ \A i, j \in DOMAIN orden : i # j => orden[i] # orden[j]
        /\ \A i, j \in DOMAIN orden :
              i < j => orden[i].fecha_realizacion >= orden[j].fecha_realizacion}

(* offset(skip).limit(limit) *)
Ventana(orden, skip, limit) ==
    SubSeq(orden, skip + 1,
           IF skip + limit < Len(orden) THEN skip + limit ELSE Len(orden))

(* Query(0, ge=0), Query(100, ge=1, le=1000), Query(None, ge=1, le=12) *)
ListadoQuery(f, skip, limit) ==
    IF skip < 0 THEN "skip"
    ELSE IF limit < 1 \/ limit > 1000 THEN "limit"
    ELSE IF f.mes # None /\ Val(f.mes) \notin 1..12 THEN "mes"
    ELSE ""

(* listar_examenes_tac, listar_examenes_rx and listar_examenes_eco differ in the
   type and the table they join; the body is the list of the ids returned *)
ListarExamenes(op, tipo, especificos, tok, f, skip, limit) ==
    LET req == [f |-> f, skip |-> skip, limit |-> limit]
        auth == require_ingresador_o_admin(tok)
    IN  IF auth.status # 200 THEN Rechazar(op, tok, req, auth)
        ELSE IF ListadoQuery(f, skip, limit) # ""
        THEN Rechazar(op, tok, req, Error(422, ListadoQuery(f, skip, limit)))
        ELSE /\ \E orden \in OrdenesPorFecha(ConsultaListado(tipo, especificos, f)) :
                  Responder(op, tok, req, 200, "",
                            [i \in DOMAIN Ventana(orden, skip, limit) |->
                                Ventana(orden, skip, limit)[i].id])
             /\ UNCHANGED <<db, sesiones, puro, credenciales>>

listar_examenes_tac(tok, f, skip, limit) ==
    ListarExamenes("listar_examenes_tac", "TAC", examenes_tac, tok, f, skip, limit)

listar_examenes_rx(tok, f, skip, limit) ==
    ListarExamenes("listar_examenes_rx", "RX", examenes_rx, tok, f, skip, limit)

listar_examenes_eco(tok, f, skip, limit) ==
    ListarExamenes("listar_examenes_eco", "ECO", examenes_eco, tok, f, skip, limit)

(* obtener_examen_tac, obtener_examen_rx and obtener_examen_eco *)
ObtenerExamen(op, tipo, especificos, tok, examen_id) ==
    LET req == [examen_id |-> examen_id]
        auth == require_ingresador_o_admin(tok)
        hallados == {b \in buscar_examen(examen_id, tipo) :
                        \E x \in especificos : x.examen_base_id = b.id}
    IN  IF auth.status # 200 THEN Rechazar(op, tok, req, auth)
        ELSE IF hallados = {}
        THEN Rechazar(op, tok, req, Error(404, "Examen no encontrado"))
        ELSE /\ Responder(op, tok, req, 200, "",
                          ExamenResponse(CHOOSE b \in hallados : TRUE))
             /\ UNCHANGED <<db, sesiones, puro, credenciales>>

obtener_examen_tac(tok, examen_id) ==
    ObtenerExamen("obtener_examen_tac", "TAC", examenes_tac, tok, examen_id)

obtener_examen_rx(tok, examen_id) ==
    ObtenerExamen("obtener_examen_rx", "RX", examenes_rx, tok, examen_id)

obtener_examen_eco(tok, examen_id) ==
    ObtenerExamen("obtener_examen_eco", "ECO", examenes_eco, tok, examen_id)

----------------------------------------------------------------------------
(* routers/reportes.py: the aggregations.  A dictionary built from the rows of a
   GROUP BY is a function whose domain is the groups that have rows. *)

(* db.query(campo, count(id)).group_by(campo) turned into {campo: total} *)
ConteoPor(filas, campo) ==
    [k \in {b[campo] : b \in filas} |-> Cardinality({b \in filas : b[campo] = k})]

(* order_by(count.desc()): every order of the groups the store may return, groups of
   equal count in any order *)
OrdenesPorTotal(conteo) ==
    {orden \in [1..Cardinality(DOMAIN conteo) -> DOMAIN conteo] :
        /\ \A i, j \in DOMAIN orden : i # j => orden[i] # orden[j]
        /\ \A i, j \in DOMAIN orden : i < j => conteo[orden[i]] >= conteo[orden[j]]}

(* {"labels": [...], "data": [...]} of the first `limite` groups of an order *)
Ranking(conteo, orden, limite) ==
    LET n == IF limite < Len(orden) THEN limite ELSE Len(orden)
    IN  [labels |-> [i \in 1..n |-> orden[i]],
         data |-> [i \in 1..n |-> conteo[orden[i]]]]

(* The base rows of a year, and of a month when given, not deleted *)
FilasDelPeriodo(anio, mes) ==
    {b \in examenes_base :
        /\ b.anio_realizacion = anio
        /\ b.deleted_at = None
        /\ (Dado(mes) => b.mes_realizacion = Val(mes))}

(* Query(None, ge=1, le=12) *)
MesQuery(mes) == IF mes # None /\ Val(mes) \notin 1..12 THEN "mes" ELSE ""

(* Query(None, pattern="^(TAC|RX|ECO)$") *)
TipoQuery(tipo_examen) ==
    IF tipo_examen # None /\ Val(tipo_examen) \notin Tipos THEN "tipo_examen" ELSE ""

(* A read-only handler behind get_current_user: 422 when `invalido` names a
   parameter, else 200 with `body` *)
Reporte(op, tok, req, invalido, body) ==
    LET auth == get_current_user(tok)
    IN  IF auth.status # 200 THEN Rechazar(op, tok, req, auth)
        ELSE IF invalido # "" THEN Rechazar(op, tok, req, Error(422, invalido))
        ELSE /\ Responder(op, tok, req, 200, "", body)
             /\ UNCHANGED <<db, sesiones, puro, credenciales>>

estadisticas_generales(tok, fecha_inicio, fecha_fin) ==
    LET filas == {b \in examenes_base :
                    /\ b.deleted_at = None
                    /\ (fecha_inicio # None => b.fecha_realizacion >= Val(fecha_inicio))
                    /\ (fecha_fin # None => b.fecha_realizacion <= Val(fecha_fin))}
    IN  Reporte("estadisticas_generales", tok,
                [fecha_inicio |-> fecha_inicio, fecha_fin |-> fecha_fin], "",
                [examenes_por_tipo |-> ConteoPor(filas, "tipo_examen"),
                 total_examenes |-> Cardinality(filas),
                 pacientes_unicos |-> Cardinality({b.paciente_id : b \in filas}),
                 por_atencion |-> ConteoPor(filas, "atencion")])

(* The series holding only the months that have rows, as the GROUP BY returns them *)
SeriePorMes_sin_relleno(anio, tipo_examen) ==
    ConteoPor({b \in FilasDelPeriodo(anio, None) :
                  tipo_examen # None => b.tipo_examen = Val(tipo_examen)},
              "mes_realizacion")

(* The twelve buckets of examenes_por_periodo: datos starts at 0 for each month and
   takes the total of each group *)
SeriePorMes(anio, tipo_examen) ==
    [m \in 1..12 |->
        Cardinality({b \in FilasDelPeriodo(anio, None) :
                        /\ (tipo_examen # None => b.tipo_examen = Val(tipo_examen))
                        /\ b.mes_realizacion = m})]

examenes_por_periodo(tok, anio, tipo_examen) ==
    Reporte("examenes_por_periodo", tok, [anio |-> anio, tipo_examen |-> tipo_examen],
            TipoQuery(tipo_examen),
            [data |-> SeriePorMes(anio, tipo_examen), anio |-> anio,
             tipo_examen |-> tipo_examen])

comparativa_tipos(tok, anio, mes) ==
    Reporte("comparativa_tipos", tok, [anio |-> anio, mes |-> mes], MesQuery(mes),
            [data |-> [t \in Tipos |->
                          Cardinality({b \in FilasDelPeriodo(anio, mes) :
                                          b.tipo_examen = t})]])

examenes_por_paciente(tok, paciente_rut) ==
    LET op == "examenes_por_paciente"
        req == [paciente_rut |-> paciente_rut]
        auth == get_current_user(tok)
        hallados == buscar_paciente(pacientes, limpiar_rut(paciente_rut))
        paciente == CHOOSE p \in hallados : TRUE
        examenes == {b \in examenes_base :
                        b.paciente_id = paciente.id /\ b.deleted_at = None}
    IN  IF auth.status # 200 THEN Rechazar(op, tok, req, auth)
        ELSE IF hallados = {}
        THEN Rechazar(op, tok, req, Error(404, "Paciente no encontrado"))
        ELSE /\ Responder(op, tok, req, 200, "",
                          [total_examenes |-> Cardinality(examenes),
                           por_tipo |-> [t \in Tipos |->
                               Cardinality({b \in examenes : b.tipo_examen = t})],
                           historial |-> {b.id : b \in examenes}])
             /\ UNCHANGED <<db, sesiones, puro, credenciales>>

(* The rows of PersonalMedico JOIN ExamenTAC JOIN ExamenBase of the period, as the
   CT rows they hold *)
SolicitudesDelPeriodo(anio, mes) ==
    {t \in examenes_tac :
        /\ t.medico_solicitante_id # None
        /\ Val(t.medico_solicitante_id) \in personal_medico
        /\ \E b \in FilasDelPeriodo(anio, mes) : b.id = t.examen_base_id}

(* group_by(PersonalMedico.nombre) with count(ExamenTAC.id) *)
ConteoPorMedico(anio, mes) ==
    LET filas == SolicitudesDelPeriodo(anio, mes)
        nombres == {nombre_medico[Val(t.medico_solicitante_id)] : t \in filas}
    IN  [n \in nombres |->
            Cardinality({t \in filas : nombre_medico[Val(t.medico_solicitante_id)] = n})]

top_medicos_solicitantes(tok, anio, mes, limit) ==
    LET op == "top_medicos_solicitantes"
        req == [anio |-> anio, mes |-> mes, limit |-> limit]
        auth == get_current_user(tok)
        invalido == IF MesQuery(mes) # "" THEN "mes"
                    ELSE IF limit < 1 \/ limit > 50 THEN "limit" ELSE ""
        conteo == ConteoPorMedico(anio, mes)
    IN  IF auth.status # 200 THEN Rechazar(op, tok, req, auth)
        ELSE IF invalido # "" THEN Rechazar(op, tok, req, Error(422, invalido))
        ELSE /\ \E orden \in OrdenesPorTotal(conteo) :
                  Responder(op, tok, req, 200, "", Ranking(conteo, orden, limit))
             /\ UNCHANGED <<db, sesiones, puro, credenciales>>

(* group_by(Prevision.nombre) over Prevision JOIN ExamenBase *)
ConteoPorPrevision(anio, mes) ==
    LET filas == {b \in FilasDelPeriodo(anio, mes) :
                     b.prevision_id # None /\ Val(b.prevision_id) \in previsiones}
        nombres == {nombre_prevision[Val(b.prevision_id)] : b \in filas}
    IN  [n \in nombres |->
            Cardinality({b \in filas : nombre_prevision[Val(b.prevision_id)] = n})]

examenes_por_prevision(tok, anio, mes) ==
    LET op == "examenes_por_prevision"
        req == [anio |-> anio, mes |-> mes]
        auth == get_current_user(tok)
        conteo == ConteoPorPrevision(anio, mes)
    IN  IF auth.status # 200 THEN Rechazar(op, tok, req, auth)
        ELSE IF MesQuery(mes) # "" THEN Rechazar(op, tok, req, Error(422, "mes"))
        ELSE /\ \E orden \in OrdenesPorTotal(conteo) :
                  Responder(op, tok, req, 200, "",
                            Ranking(conteo, orden, Cardinality(DOMAIN conteo)))
             /\ UNCHANGED <<db, sesiones, puro, credenciales>>

resumen_mensual(tok, anio, mes) ==
    LET filas == FilasDelPeriodo(anio, Some(mes))
    IN  Reporte("resumen_mensual", tok, [anio |-> anio, mes |-> mes],
                IF mes \notin 1..12 THEN "mes" ELSE "",
                [total_examenes |-> Cardinality(filas),
                 por_tipo |-> ConteoPor(filas, "tipo_examen"),
                 por_atencion |-> ConteoPor(filas, "atencion"),
                 por_contrato |-> ConteoPor(filas, "contrato")])

----------------------------------------------------------------------------
(* schemas/usuario.py, schemas/paciente.py *)

(* UsuarioBase / PacienteBase: the length of rut as submitted, then
   validar_formato_rut.  "" when the payload passes. *)
validar_formato_rut(v) ==
    IF Len(v) < 9 \/ Len(v) > 12 THEN "rut"
    ELSE IF Len(limpiar_rut(v)) < 8 THEN "RUT debe tener al menos 8 caracteres"
    ELSE ""

----------------------------------------------------------------------------
(* routers/usuarios.py: the administrator's operations on users *)

(* Usuario(...) taking the role the request names *)
NuevoUsuario_con_rol_pedido(usuario_data) ==
    [id |-> seq_usuario, rut |-> limpiar_rut(usuario_data.rut),
     email |-> usuario_data.email, rol |-> usuario_data.rol, activo |-> TRUE,
     debe_cambiar_password |-> TRUE,
     password_hash |-> get_password_hash(usuario_data.password)]

(* Usuario(...) of crear_usuario_ingresador: the rut as validar_formato_rut returns
   it, the role forced *)
NuevoUsuario(usuario_data) ==
    [id |-> seq_usuario, rut |-> limpiar_rut(usuario_data.rut),
     email |-> usuario_data.email, rol |-> "ingresador", activo |-> TRUE,
     debe_cambiar_password |-> TRUE,
     password_hash |-> get_password_hash(usuario_data.password)]

crear_usuario_ingresador(tok, usuario_data) ==
    LET op == "crear_usuario_ingresador"
        auth == require_admin(tok)
        rut == limpiar_rut(usuario_data.rut)   \* the value validar_formato_rut returns
        nuevo_usuario == NuevoUsuario(usuario_data)
    IN  IF auth.status # 200 THEN Rechazar(op, tok, usuario_data, auth)
        ELSE IF validar_formato_rut(usuario_data.rut) # ""
        THEN Rechazar(op, tok, usuario_data,
                      Error(422, validar_formato_rut(usuario_data.rut)))
        ELSE IF usuario_data.rol \notin {"ingresador", "administrador"}
        THEN Rechazar(op, tok, usuario_data, Error(422, "rol"))
        ELSE IF ~validar_rut_chileno(rut)
        THEN Rechazar(op, tok, usuario_data, Error(400, "RUT invalido"))
        ELSE IF \E u \in usuarios : u.rut = rut
        THEN Rechazar(op, tok, usuario_data, Error(400, "RUT ya registrado"))
        ELSE IF \E u \in usuarios : u.email = usuario_data.email
        THEN Rechazar(op, tok, usuario_data, Error(400, "Email ya registrado"))
        ELSE /\ usuarios' = usuarios \cup {nuevo_usuario}
             /\ seq_usuario' = seq_usuario + 1
             /\ Responder(op, tok, usuario_data, 201, "", nuevo_usuario)
             /\ UNCHANGED <<pacientes, examenes_base, examenes_tac, examenes_rx,
                            examenes_eco, seq_paciente, seq_examen, reloj, sesiones, puro, credenciales>>

listar_usuarios(tok, activo, rol) ==
    LET op == "listar_usuarios"
        req == [activo |-> activo, rol |-> rol]
        auth == require_admin(tok)
    IN  IF auth.status # 200 THEN Rechazar(op, tok, req, auth)
        ELSE /\ Responder(op, tok, req, 200, "",
                          {u.id : u \in {x \in usuarios :
                              /\ (activo # None => x.activo = Val(activo))
                              /\ (~Vacio(rol) => x.rol = Val(rol))}})
             /\ UNCHANGED <<db, sesiones, puro, credenciales>>

toggle_usuario(tok, usuario_id) ==
    LET op == "toggle_usuario"
        req == [usuario_id |-> usuario_id]
        auth == require_admin(tok)
        hallados == {u \in usuarios : u.id = usuario_id}
        usuario == CHOOSE u \in hallados : TRUE
        nuevo == [usuario EXCEPT !.activo = ~@]
    IN  IF auth.status # 200 THEN Rechazar(op, tok, req, auth)
        ELSE IF hallados = {}
        THEN Rechazar(op, tok, req, Error(404, "Usuario no encontrado"))
        ELSE IF usuario.id = Val(tok)
        THEN Rechazar(op, tok, req, Error(400, "No puedes desactivarte a ti mismo"))
        ELSE /\ usuarios' = (usuarios \ {usuario}) \cup {nuevo}
             /\ Responder(op, tok, req, 200, "", nuevo)
             /\ UNCHANGED <<pacientes, examenes_base, examenes_tac, examenes_rx,
                            examenes_eco, seq_usuario, seq_paciente, seq_examen, reloj,
                            sesiones, puro, credenciales>>

(* db.delete(usuario): the relationships examenes_creados and examenes_modificados
   have no delete cascade, so the flush sets created_by / updated_by of the user's
   exams to NULL *)
desvincular_usuario(e, usuario_id) ==
    [e EXCEPT !.created_by = IF @ = Some(usuario_id) THEN None ELSE @,
              !.updated_by = IF @ = Some(usuario_id) THEN None ELSE @]

eliminar_usuario(tok, usuario_id, eliminar_examenes) ==
    LET op == "eliminar_usuario"
        req == [usuario_id |-> usuario_id, eliminar_examenes |-> eliminar_examenes]
        auth == require_admin(tok)
        hallados == {u \in usuarios : u.id = usuario_id}
        usuario == CHOOSE u \in hallados : TRUE
        examenes_count ==
            Cardinality({e \in examenes_base : e.created_by = Some(usuario_id)})
        marcados == {IF eliminar_examenes /\ e.created_by = Some(usuario_id)
                     THEN [e EXCEPT !.deleted_at = Some(reloj)] ELSE e
                     : e \in examenes_base}
    IN  IF auth.status # 200 THEN Rechazar(op, tok, req, auth)
        ELSE IF hallados = {}
        THEN Rechazar(op, tok, req, Error(404, "Usuario no encontrado"))
        ELSE IF usuario.id = Val(tok)
        THEN Rechazar(op, tok, req, Error(400, "No puedes eliminarte a ti mismo"))
        ELSE IF examenes_count > 0 /\ ~eliminar_examenes
        THEN Rechazar(op, tok, req, Error(400, "Usuario tiene examenes"))
        ELSE /\ examenes_base' = {desvincular_usuario(e, usuario_id) : e \in marcados}
             /\ usuarios' = usuarios \ {usuario}
             /\ reloj' = IF eliminar_examenes THEN reloj + 1 ELSE reloj
             /\ Responder(op, tok, req, 204, "", <<>>)
             /\ UNCHANGED <<pacientes, examenes_tac, examenes_rx, examenes_eco,
                            seq_usuario, seq_paciente, seq_examen, sesiones, puro, credenciales>>

(* actualizar_mi_perfil, of which the email is modelled: a new email another
   account holds is refused, any other is stored *)
actualizar_mi_perfil(tok, datos) ==
    LET op == "actualizar_mi_perfil"
        auth == get_current_user(tok)
        current_user == UsuarioPorId(Val(tok))
        nuevo == [current_user EXCEPT !.email = Val(datos.email)]
    IN  IF auth.status # 200 THEN Rechazar(op, tok, datos, auth)
        ELSE IF datos.email # None /\ Val(datos.email) # current_user.email
                /\ \E u \in usuarios : u.email = Val(datos.email) /\ u.id # current_user.id
        THEN Rechazar(op, tok, datos, Error(400, "Email ya en uso"))
        ELSE /\ usuarios' = IF datos.email # None
                            THEN (usuarios \ {current_user}) \cup {nuevo}
                            ELSE usuarios
             /\ Responder(op, tok, datos, 200, "",
                          IF datos.email # None THEN nuevo ELSE current_user)
             /\ UNCHANGED <<pacientes, examenes_base, examenes_tac, examenes_rx,
                            examenes_eco, seq_usuario, seq_paciente, seq_examen, reloj,
                            sesiones, puro, credenciales>>

(* eliminar_mi_cuenta: the password confirmed and no exam created, the user deletes
   its own row *)
eliminar_mi_cuenta(tok, password) ==
    LET op == "eliminar_mi_cuenta"
        req == [password |-> password]
        auth == get_current_user(tok)
        current_user == UsuarioPorId(Val(tok))
        examenes_count ==
            Cardinality({e \in examenes_base : e.created_by = Some(current_user.id)})
    IN  IF auth.status # 200 THEN Rechazar(op, tok, req, auth)
        ELSE IF ~verify_password(password, current_user.password_hash)
        THEN Rechazar(op, tok, req, Error(400, "Contrasena incorrecta"))
        ELSE IF examenes_count > 0
        THEN Rechazar(op, tok, req, Error(400, "No puedes eliminar tu cuenta"))
        ELSE /\ usuarios' = usuarios \ {current_user}
             /\ examenes_base' =
                    {desvincular_usuario(e, current_user.id) : e \in examenes_base}
             /\ Responder(op, tok, req, 204, "", <<>>)
             /\ UNCHANGED <<pacientes, examenes_tac, examenes_rx, examenes_eco,
                            seq_usuario, seq_paciente, seq_examen, reloj, sesiones,
                            puro, credenciales>>

----------------------------------------------------------------------------
(* config.py, routers/auth.py *)

(* settings.ADMIN_SECRET_KEY *)
ADMIN_SECRET_KEY == "clave-secreta"

(* settings.ACCESS_TOKEN_EXPIRE_MINUTES, in ticks of reloj *)
ACCESS_TOKEN_EXPIRE_MINUTES == 2

(* RegistroAdminRequest: the length of rut as submitted; the model has no
   validator, so the rut is checked and stored as submitted *)
RegistroAdminRequest(usuario_data) ==
    IF Len(usuario_data.rut) < 9 \/ Len(usuario_data.rut) > 12 THEN "rut" ELSE ""

registrar_admin(usuario_data) ==
    LET op == "registrar_admin"
        nuevo_admin == [id |-> seq_usuario, rut |-> usuario_data.rut,
                        email |-> usuario_data.email, rol |-> "administrador",
                        activo |-> TRUE, debe_cambiar_password |-> FALSE,
                        password_hash |-> get_password_hash(usuario_data.password)]
    IN  IF RegistroAdminRequest(usuario_data) # ""
        THEN Rechazar(op, None, usuario_data,
                      Error(422, RegistroAdminRequest(usuario_data)))
        ELSE IF usuario_data.admin_secret # ADMIN_SECRET_KEY
        THEN Rechazar(op, None, usuario_data,
                      Error(403, "Clave secreta de administrador incorrecta"))
        ELSE IF ~validar_rut_chileno(usuario_data.rut)
        THEN Rechazar(op, None, usuario_data, Error(400, "RUT invalido"))
        ELSE IF \E u \in usuarios : u.rut = usuario_data.rut
        THEN Rechazar(op, None, usuario_data, Error(400, "RUT ya registrado"))
        ELSE IF \E u \in usuarios : u.email = usuario_data.email
        THEN Rechazar(op, None, usuario_data, Error(400, "Email ya registrado"))
        ELSE /\ usuarios' = usuarios \cup {nuevo_admin}
             /\ seq_usuario' = seq_usuario + 1
             /\ Responder(op, None, usuario_data, 201, "", nuevo_admin)
             /\ UNCHANGED <<pacientes, examenes_base, examenes_tac, examenes_rx,
                            examenes_eco, seq_paciente, seq_examen, reloj, sesiones,
                            puro, credenciales>>

(* The part login and login_for_access_token share: the user of the email, the
   password verified, the account active, the token created *)
IniciarSesion(op, email, password, inactivo) ==
    LET req == [email |-> email, password |-> password]
        hallados == {u \in usuarios : u.email = email}
        usuario == CHOOSE u \in hallados : TRUE
        access_token == create_access_token([sub |-> usuario.id, rol |-> usuario.rol],
                                            ACCESS_TOKEN_EXPIRE_MINUTES)
    IN  IF hallados = {} \/ ~verify_password(password, usuario.password_hash)
        THEN Rechazar(op, None, req, Error(401, "Email o contrasena incorrectos"))
        ELSE IF ~usuario.activo
        THEN Rechazar(op, None, req, Error(403, inactivo))
        ELSE /\ credenciales' = credenciales \cup {access_token}
             /\ Responder(op, None, req, 200, "", access_token)
             /\ UNCHANGED <<db, sesiones, puro>>

login(login_data) ==
    IniciarSesion("login", login_data.email, login_data.password,
                  "Usuario inactivo. Contacta al administrador.")

login_for_access_token(form_data) ==
    IniciarSesion("login_for_access_token", form_data.username, form_data.password,
                  "Usuario inactivo")

----------------------------------------------------------------------------
(* routers/pacientes.py *)

crear_paciente(tok, paciente_data) ==
    LET op == "crear_paciente"
        auth == get_current_user(tok)
        rut_limpio == limpiar_rut(paciente_data.rut)
        nuevo_paciente == [id |-> seq_paciente, rut |-> rut_limpio,
                           nombre_completo |-> paciente_data.nombre_completo,
                           fecha_nacimiento |-> paciente_data.fecha_nacimiento]
    IN  IF auth.status # 200 THEN Rechazar(op, tok, paciente_data, auth)
        ELSE IF validar_formato_rut(paciente_data.rut) # ""
        THEN Rechazar(op, tok, paciente_data,
                      Error(422, validar_formato_rut(paciente_data.rut)))
        ELSE IF ~validar_rut_chileno(rut_limpio)
        THEN Rechazar(op, tok, paciente_data, Error(400, "RUT invalido"))
        ELSE IF buscar_paciente(pacientes, rut_limpio) # {}
        THEN Rechazar(op, tok, paciente_data, Error(400, "Paciente ya existe"))
        ELSE /\ pacientes' = pacientes \cup {nuevo_paciente}
             /\ seq_paciente' = seq_paciente + 1
             /\ Responder(op, tok, paciente_data, 201, "", nuevo_paciente)
             /\ UNCHANGED <<usuarios, examenes_base, examenes_tac, examenes_rx,
                            examenes_eco, seq_usuario, seq_examen, reloj, sesiones, puro, credenciales>>

(* Paciente.examenes and ExamenBase.examen_tac/rx/eco are cascade="all,
   delete-orphan": the specialization rows of the deleted base rows go with them *)
cascada_especificos_ausente(tabla, borrados) == tabla

cascada_especificos(tabla, borrados) ==
    {x \in tabla : x.examen_base_id \notin borrados}

eliminar_paciente(tok, paciente_id) ==
    LET op == "eliminar_paciente"
        req == [paciente_id |-> paciente_id]
        auth == get_current_user(tok)
        hallados == {p \in pacientes : p.id = paciente_id}
        paciente == CHOOSE p \in hallados : TRUE
        borrados == {e.id : e \in {b \in examenes_base : b.paciente_id = paciente_id}}
    IN  IF auth.status # 200 THEN Rechazar(op, tok, req, auth)
        ELSE IF UsuarioPorId(Val(tok)).rol # "administrador"
        THEN Rechazar(op, tok, req,
                      Error(403, "No tiene permisos para eliminar pacientes"))
        ELSE IF hallados = {}
        THEN Rechazar(op, tok, req, Error(404, "Paciente no encontrado"))
        ELSE /\ pacientes' = pacientes \ {paciente}
             /\ examenes_base' = {e \in examenes_base : e.id \notin borrados}
             /\ examenes_tac' = cascada_especificos(examenes_tac, borrados)
             /\ examenes_rx' = cascada_especificos(examenes_rx, borrados)
             /\ examenes_eco' = cascada_especificos(examenes_eco, borrados)
             /\ Responder(op, tok, req, 204, "", <<>>)
             /\ UNCHANGED <<usuarios, seq_usuario, seq_paciente, seq_examen, reloj,
                            sesiones, puro, credenciales>>

----------------------------------------------------------------------------
(* The initial state: the store after an administrator registered and created one
   data-entry user; no patient, no exam, no request in flight *)

(* stored as registrar_admin received it, 9 to 12 characters *)
RutAdmin == <<"1", "0", "0", "0", "0", "1", "3", "-", "0">>
RutIngresador == <<"1", "0", "0", "0", "0", "0", "2", "5">>

Admin ==
    [id |-> 1, rut |-> RutAdmin, email |-> "admin@hospital.cl", rol |-> "administrador",
     activo |-> TRUE, debe_cambiar_password |-> FALSE,
     password_hash |-> get_password_hash("clave-admin")]

Ingresador ==
    [id |-> 2, rut |-> RutIngresador, email |-> "ingreso@hospital.cl",
     rol |-> "ingresador", activo |-> TRUE, debe_cambiar_password |-> TRUE,
     password_hash |-> get_password_hash("clave-ingreso")]

SinRespuesta == [op |-> "", status |-> 0, detail |-> "", body |-> <<>>]

Init ==
    /\ usuarios = {Admin, Ingresador}
    /\ pacientes = {}
    /\ examenes_base = {}
    /\ examenes_tac = {}
    /\ examenes_rx = {}
    /\ examenes_eco = {}
    /\ seq_usuario = 3
    /\ seq_paciente = 1
    /\ seq_examen = 1
    /\ reloj = 1
    /\ sesiones = <<>>
    /\ credenciales = {}
    /\ puro = <<>>
    /\ resp = SinRespuesta

----------------------------------------------------------------------------
(* The requests the environment sends *)

TokAdmin == Some(1)
TokIngresador == Some(2)

RutK == <<"1", "0", "0", "0", "0", "0", "5", "-", "K">>
Rutk == <<"1", ".", "0", "0", "0", ".", "0", "0", "5", "-", "k">>
Rut9 == <<"1", "0", "0", "0", "0", "0", "0", "-", "9">>
RutMalo == <<"1", "0", "0", "0", "0", "0", "0", "-", "8">>

Ana == <<"A", "n", "a">>

F0 == Fecha(2024, 6, 14)
F1 == Fecha(2024, 6, 15)
F2 == Fecha(2025, 1, 10)
Nac == Fecha(2000, 6, 15)

(* A valid payload of each registration; Con(cambios, d) is d with the fields of
   `cambios` replaced *)
TAC0 ==
    [paciente_rut |-> RutK, paciente_nombre |-> Some(Ana), fecha_realizacion |-> F1,
     atencion |-> "Abierta", prevision_id |-> 1, contrato |-> "Institucional",
     fecha_solicitud |-> F1, fecha_nacimiento |-> None, vfge |-> None,
     premedicado |-> None, medico_solicitante_id |-> None]

RX0 ==
    [paciente_rut |-> RutK, paciente_nombre |-> Some(Ana), fecha_realizacion |-> F1,
     atencion |-> "Abierta", prevision_id |-> 1, contrato |-> "Institucional",
     hora_realizacion |-> 9]

ECO0 ==
    [paciente_rut |-> RutK, paciente_nombre |-> Some(Ana), fecha_realizacion |-> F1,
     atencion |-> "Abierta", prevision_id |-> 1, contrato |-> "Institucional",
     diagnostico_id |-> None]

Con(cambios, d) == cambios @@ d

(* An id that no row of any table has *)
IdAusente ==
    CHOOSE n \in 1..99 :
        n \notin previsiones \cup personal_medico
                 \cup 1..(MaxExamenes + MaxPacientes + MaxUsuarios)

(* The bounds on the rows ever inserted: a registration is sent while the exam
   sequence is within MaxExamenes and, if its patient would be new, the patient
   sequence within MaxPacientes *)
HayCupo(rut) ==
    /\ seq_examen <= MaxExamenes
    /\ (buscar_paciente(pacientes, limpiar_rut(rut)) = {} => seq_paciente <= MaxPacientes)

(* The specialization rows of the base row `id`, per table *)
FilasDe(tabla, id) == {x \in tabla : x.examen_base_id = id}

TablaDe(tipo) ==
    CASE tipo = "TAC" -> examenes_tac
      [] tipo = "RX" -> examenes_rx
      [] tipo = "ECO" -> examenes_eco
      [] OTHER -> {}

----------------------------------------------------------------------------
(* Spec: the life of the exams.  Registration of the three types (one of them with
   a requesting physician the store does not know), update, soft delete, review
   flag, and the deletion of users and patients. *)

Next ==
    \/ \E d \in {TAC0, Con([paciente_rut |-> Rut9], TAC0),
                  Con([medico_solicitante_id |-> Some(IdAusente)], TAC0)} :
          HayCupo(d.paciente_rut) /\ crear_examen_tac(TokIngresador, d)
    \/ \E d \in {RX0, Con([paciente_rut |-> Rut9], RX0)} :
          HayCupo(d.paciente_rut) /\ crear_examen_rx(TokIngresador, d)
    \/ \E d \in {ECO0, Con([paciente_rut |-> Rut9], ECO0)} :
          HayCupo(d.paciente_rut) /\ crear_examen_eco(TokIngresador, d)
    \/ \E id \in 1..MaxExamenes :
          actualizar_examen_tac(TokAdmin, id, [atencion |-> Some("Cerrada")])
    \/ \E id \in 1..MaxExamenes :
          actualizar_examen_rx(TokAdmin, id, [atencion |-> Some("Cerrada")])
    \/ \E id \in 1..MaxExamenes :
          actualizar_examen_eco(TokAdmin, id, [atencion |-> Some("Cerrada")])
    \/ \E id \in 1..MaxExamenes : eliminar_examen_tac(TokAdmin, id)
    \/ \E id \in 1..MaxExamenes : eliminar_examen_rx(TokAdmin, id)
    \/ \E id \in 1..MaxExamenes : eliminar_examen_eco(TokAdmin, id)
    \/ \E id \in 1..MaxExamenes, en_revision \in BOOLEAN :
          marcar_examen_revision(TokAdmin, id,
              [en_revision |-> en_revision, motivo |-> Some("fecha dudosa")])
    \/ \E eliminar_examenes \in BOOLEAN :
          eliminar_usuario(TokAdmin, 2, eliminar_examenes)
    \/ \E id \in 1..MaxPacientes : eliminar_paciente(TokAdmin, id)

Spec == Init /\ [][Next]_vars

(* C1: in every reachable state every row of examenes_base has exactly one
   specialization row, in the table of its tipo_examen and in no other, and every
   specialization row belongs to a row of examenes_base. *)
C1_UnaEspecializacionPorBase ==
    /\ \A b \in examenes_base :
          /\ Cardinality(FilasDe(TablaDe(b.tipo_examen), b.id)) = 1
          /\ \A tipo \in Tipos \ {b.tipo_examen} : FilasDe(TablaDe(tipo), b.id) = {}
    /\ \A tipo \in Tipos : \A x \in TablaDe(tipo) :
          \E b \in examenes_base : b.id = x.examen_base_id

(* A patient with exams was deleted while the exams of another patient, soft-deleted
   ones among them, stay *)
C1_Testigo ==
    /\ resp.op = "eliminar_paciente"
    /\ resp.status = 204
    /\ \E b \in examenes_base : b.deleted_at # None
    /\ seq_examen > MaxExamenes

----------------------------------------------------------------------------
(* SpecFechas: registrations dated in 2024 and updates that move the realization
   date, the request date, both or neither. *)

ActualizacionesFechaTAC ==
    {[fecha_realizacion |-> Some(f)] : f \in {F1, F2}}
    \cup {[fecha_solicitud |-> Some(f)] : f \in {F0, F2}}
    \cup {[fecha_realizacion |-> Some(F0), fecha_solicitud |-> Some(F0)],
          [fecha_realizacion |-> None], [atencion |-> Some("Cerrada")]}

ActualizacionesFecha ==
    {[fecha_realizacion |-> Some(f)] : f \in {F1, F2}}
    \cup {[fecha_realizacion |-> None], [atencion |-> Some("Cerrada")]}

NextFechas ==
    \/ \E fr \in {F0, F1}, fs \in {F0, F1} :
          /\ HayCupo(RutK)
          /\ crear_examen_tac(TokIngresador,
                Con([fecha_realizacion |-> fr, fecha_solicitud |-> fs], TAC0))
    \/ \E fr \in {F0, F1} :
          /\ HayCupo(RutK)
          /\ crear_examen_rx(TokIngresador, Con([fecha_realizacion |-> fr], RX0))
    \/ \E fr \in {F0, F1} :
          /\ HayCupo(RutK)
          /\ crear_examen_eco(TokIngresador, Con([fecha_realizacion |-> fr], ECO0))
    \/ \E id \in 1..MaxExamenes, u \in ActualizacionesFechaTAC :
          actualizar_examen_tac(TokAdmin, id, u)
    \/ \E id \in 1..MaxExamenes, u \in ActualizacionesFecha :
          actualizar_examen_rx(TokAdmin, id, u)
    \/ \E id \in 1..MaxExamenes, u \in ActualizacionesFecha :
          actualizar_examen_eco(TokAdmin, id, u)

SpecFechas == Init /\ [][NextFechas]_vars

(* C6: in every reachable state every stored CT exam has fecha_solicitud <=
   fecha_realizacion, also after updates of either date. *)
C6_SolicitudNoPosterior ==
    \A b \in examenes_base : \A t \in FilasDe(examenes_tac, b.id) :
        t.fecha_solicitud <= b.fecha_realizacion

(* C8: in every reachable state the stored month and year of every exam are those
   of its stored realization date, and the month is in 1..12. *)
C8_MesAnioDeFechaRealizacion ==
    \A b \in examenes_base :
        /\ b.mes_realizacion = Mes(b.fecha_realizacion)
        /\ b.anio_realizacion = Anio(b.fecha_realizacion)
        /\ b.mes_realizacion \in 1..12

(* An update moved an exam registered in 2024 to January 2025, beside an exam whose
   update left the date alone *)
C8_Testigo ==
    /\ resp.op \in {"actualizar_examen_tac", "actualizar_examen_rx",
                    "actualizar_examen_eco"}
    /\ resp.status = 200
    /\ \E b \in examenes_base :
          /\ b.fecha_realizacion = F2
          /\ b.mes_realizacion = 1
          /\ b.anio_realizacion = 2025
    /\ \E b \in examenes_base :
          /\ b.atencion = "Cerrada"
          /\ b.anio_realizacion = 2024

----------------------------------------------------------------------------
(* SpecAtomico: registrations for new and known patients, with and without a birth
   date, some of which the store rejects at the base or specialization insert. *)

NextAtomico ==
    \/ \E rut \in {RutK, Rut9}, fn \in {None, Some(Nac)},
          prevision_id \in {1, IdAusente},
          medico_solicitante_id \in {None, Some(IdAusente)} :
          /\ HayCupo(rut)
          /\ crear_examen_tac(TokIngresador,
                Con([paciente_rut |-> rut, fecha_nacimiento |-> fn,
                     prevision_id |-> prevision_id,
                     medico_solicitante_id |-> medico_solicitante_id], TAC0))
    \/ \E rut \in {RutK, Rut9}, prevision_id \in {1, IdAusente} :
          /\ HayCupo(rut)
          /\ crear_examen_rx(TokIngresador,
                Con([paciente_rut |-> rut, prevision_id |-> prevision_id], RX0))
    \/ \E rut \in {RutK, Rut9}, prevision_id \in {1, IdAusente} :
          /\ HayCupo(rut)
          /\ crear_examen_eco(TokAdmin,
                Con([paciente_rut |-> rut, prevision_id |-> prevision_id], ECO0))

SpecAtomico == Init /\ [][NextAtomico]_vars

(* C2: a registration (TAC, RX or ECO) that fails persists nothing written by the
   request: no new patient row, no back-filled birth date, no base row and no
   specialization row. *)
C2_RegistroAtomico ==
    [][(resp'.op \in {"crear_examen_tac", "crear_examen_rx", "crear_examen_eco"}
        /\ resp'.status # 201)
       => UNCHANGED <<pacientes, examenes_base, examenes_tac, examenes_rx,
                      examenes_eco>>]_vars

----------------------------------------------------------------------------
(* SpecCarrera: two requests of crear_examen_rx run concurrently, each on its own
   store session.  A request is the sequence of its store round trips: the SELECT of
   obtener_o_crear_paciente, its INSERT + COMMIT of the patient, and the insert and
   commit of the exam; the steps of the two requests interleave freely.
   sesiones[s] is the position of request s and what it holds in memory. *)

Sesiones == {1, 2}

Fin(s, status, paciente_id) ==
    [sesiones[s] EXCEPT !.pc = "fin", !.status = status, !.paciente_id = paciente_id]

(* The dependencies and the validation of the body, before the handler runs *)
iniciar_crear_examen_rx(s, tok, d) ==
    LET auth == require_ingresador_o_admin(tok)
    IN  /\ s \notin DOMAIN sesiones
        /\ auth.status = 200
        /\ ExamenBaseData(d) = ""
        /\ sesiones' = (s :> [pc |-> "select", tok |-> tok, d |-> d, status |-> 0,
                              paciente_id |-> 0]) @@ sesiones
        /\ UNCHANGED <<db, puro, credenciales, resp>>

(* limpiar_rut, validar_rut_chileno and the SELECT by rut; a patient found is
   returned (none here lacks what the request could back-fill: fecha_nac is not a
   field of the RX body) *)
consultar_paciente(s) ==
    LET ses == sesiones[s]
        rut_limpio == limpiar_rut(ses.d.paciente_rut)
        hallados == buscar_paciente(pacientes, rut_limpio)
    IN  /\ ses.pc = "select"
        /\ IF ~validar_rut_chileno(rut_limpio)
           THEN /\ sesiones' = [sesiones EXCEPT ![s] = Fin(s, 400, 0)]
                /\ Responder("crear_examen_rx", ses.tok, ses.d, 400, "RUT invalido", <<>>)
           ELSE IF hallados # {}
           THEN /\ sesiones' = [sesiones EXCEPT ![s] =
                        [ses EXCEPT !.pc = "examen",
                                    !.paciente_id = (CHOOSE p \in hallados : TRUE).id]]
                /\ UNCHANGED resp
           ELSE IF Vacio(ses.d.paciente_nombre)
           THEN /\ sesiones' = [sesiones EXCEPT ![s] = Fin(s, 400, 0)]
                /\ Responder("crear_examen_rx", ses.tok, ses.d, 400,
                             "Debe proporcionar el nombre del paciente", <<>>)
           ELSE /\ sesiones' = [sesiones EXCEPT ![s] = [ses EXCEPT !.pc = "insert"]]
                /\ UNCHANGED resp
        /\ UNCHANGED <<db, puro, credenciales>>

(* db.add(nuevo_paciente); db.commit(): the unique index of pacientes.rut rejects a
   row whose rut another request committed meanwhile, and the IntegrityError, which
   nothing catches, ends the request with 500 *)
insertar_paciente(s) ==
    LET ses == sesiones[s]
        fila == [id |-> seq_paciente, rut |-> limpiar_rut(ses.d.paciente_rut),
                 nombre_completo |-> Val(ses.d.paciente_nombre),
                 fecha_nacimiento |-> None]
    IN  /\ ses.pc = "insert"
        /\ IF pacientes_rechaza(pacientes, fila)
           THEN /\ sesiones' = [sesiones EXCEPT ![s] = Fin(s, 500, 0)]
                /\ Responder("crear_examen_rx", ses.tok, ses.d, 500, "IntegrityError", <<>>)
                /\ UNCHANGED db
           ELSE /\ pacientes' = pacientes \cup {fila}
                /\ seq_paciente' = seq_paciente + 1
                /\ sesiones' = [sesiones EXCEPT ![s] =
                        [ses EXCEPT !.pc = "examen", !.paciente_id = fila.id]]
                /\ UNCHANGED <<usuarios, examenes_base, examenes_tac, examenes_rx,
                               examenes_eco, seq_usuario, seq_examen, reloj, resp>>
        /\ UNCHANGED <<puro, credenciales>>

(* The base row flushed, the RX row added, both committed, the response built *)
persistir_examen_rx(s) ==
    LET ses == sesiones[s]
        base == NuevoExamenBase("RX", ses.d, ses.paciente_id, Val(ses.tok))
        rx == NuevoExamenRX(ses.d)
        ok == ~examenes_base_rechaza(base)
    IN  /\ ses.pc = "examen"
        /\ PersistirExamen("crear_examen_rx", ses.tok, ses.d, base, FALSE,
                           ExamenResponse(base))
        /\ examenes_rx' = IF ok THEN examenes_rx \cup {rx} ELSE examenes_rx
        /\ sesiones' = [sesiones EXCEPT ![s] =
                [ses EXCEPT !.pc = "fin", !.status = IF ok THEN 201 ELSE 500]]
        /\ UNCHANGED <<usuarios, pacientes, examenes_tac, examenes_eco, seq_usuario,
                       seq_paciente, reloj, puro, credenciales>>

NextCarrera ==
    \/ \E s \in Sesiones, tok \in {TokAdmin, TokIngresador}, rut \in {RutK, Rut9},
          fr \in {F0, F1} :
          iniciar_crear_examen_rx(s, tok,
              Con([paciente_rut |-> rut, fecha_realizacion |-> fr], RX0))
    \/ \E s \in DOMAIN sesiones : consultar_paciente(s)
    \/ \E s \in DOMAIN sesiones : insertar_paciente(s)
    \/ \E s \in DOMAIN sesiones : persistir_examen_rx(s)

SpecCarrera == Init /\ [][NextCarrera]_vars

(* C3: two concurrent registrations for the same unregistered RUT, both with a
   name: under every interleaving neither ends in a fatal error, both return the
   same patient, and exactly one patient row has that RUT. *)
C3_CarreraSinErrorFatal ==
    \A s \in DOMAIN sesiones, t \in DOMAIN sesiones :
        (/\ s # t
         /\ sesiones[s].pc = "fin"
         /\ sesiones[t].pc = "fin"
         /\ sesiones[s].d.paciente_rut = sesiones[t].d.paciente_rut)
        => /\ sesiones[s].status = 201
           /\ sesiones[s].paciente_id = sesiones[t].paciente_id
           /\ Cardinality(buscar_paciente(pacientes,
                  limpiar_rut(sesiones[s].d.paciente_rut))) = 1

----------------------------------------------------------------------------
(* SpecRut: the same RUT submitted with and without separators and with either
   case of the check character, through registration and through crear_paciente;
   beside it a RUT with a wrong check digit and one too short. *)

RutCorto == <<"1", "-", "9">>

Ruts == {RutK, Rutk, Rut9, RutMalo}

NextRut ==
    \/ \E rut \in Ruts :
          /\ HayCupo(rut)
          /\ crear_examen_tac(TokIngresador, Con([paciente_rut |-> rut], TAC0))
    \/ \E rut \in Ruts :
          /\ HayCupo(rut)
          /\ crear_examen_rx(TokIngresador, Con([paciente_rut |-> rut], RX0))
    \/ \E rut \in Ruts :
          /\ HayCupo(rut)
          /\ crear_examen_eco(TokIngresador, Con([paciente_rut |-> rut], ECO0))
    \/ \E tok \in {TokAdmin, TokIngresador}, rut \in Ruts \cup {RutCorto} :
          /\ seq_paciente <= MaxPacientes
          /\ crear_paciente(tok, [rut |-> rut, nombre_completo |-> Ana,
                                  fecha_nacimiento |-> None])

SpecRut == Init /\ [][NextRut]_vars

(* C4: in every reachable state each stored patient RUT is checksum-valid and
   normalized (no separators, check character upper-case), and no two patient rows
   denote the same RUT, however the RUT was written when submitted. *)
C4_RutNormalizadoUnico ==
    /\ \A p \in pacientes :
          /\ validar_rut_chileno(p.rut)
          /\ p.rut = upper(limpiar_rut(p.rut))
    /\ \A p \in pacientes, q \in pacientes :
          upper(limpiar_rut(p.rut)) = upper(limpiar_rut(q.rut)) => p = q

----------------------------------------------------------------------------
(* SpecValidacion: CT registrations over request and realization dates in every
   order, and over vfge absent, empty, numeric, other text and the sentinel in three
   letter cases, with premedicado omitted, true and false. *)

Vfge125 == <<"1", "2", ".", "5">>
VfgeAbc == <<"a", "b", "c">>
SinCreatininaTitulo == <<"S", "i", "n", " ", "C", "r", "e", "a", "t", "i", "n", "i", "n", "a">>
SinCreatininaMayus == <<"S", "I", "N", " ", "C", "R", "E", "A", "T", "I", "N", "I", "N", "A">>

Vfges == {None, Some(<<>>), Some(Vfge125), Some(VfgeAbc), Some(SinCreatinina),
          Some(SinCreatininaTitulo), Some(SinCreatininaMayus)}

PayloadsValidacion ==
    {Con([fecha_solicitud |-> fs, fecha_realizacion |-> fr, vfge |-> v,
          premedicado |-> pm], TAC0) :
        fs \in {F0, F1}, fr \in {F0, F1}, v \in Vfges,
        pm \in {None, Some(TRUE), Some(FALSE)}}

NextValidacion ==
    \E d \in PayloadsValidacion :
        /\ HayCupo(d.paciente_rut)
        /\ crear_examen_tac(TokIngresador, d)

SpecValidacion == Init /\ [][NextValidacion]_vars

MensajeFechas == "Fecha de solicitud no puede ser posterior a fecha de realizacion"
MensajePremedicado == "Premedicado es obligatorio cuando VFGE tiene un valor numerico"

(* C5: a CT registration with fecha_solicitud later than fecha_realizacion is
   answered 422 and stores no base or specialization row; with fecha_solicitud equal
   or earlier it is not rejected for its dates. *)
C5_SolicitudPosteriorRechazada ==
    [][\A d \in PayloadsValidacion :
          crear_examen_tac(TokIngresador, d)
          => IF d.fecha_solicitud > d.fecha_realizacion
             THEN /\ resp'.status = 422
                  /\ UNCHANGED <<pacientes, examenes_base, examenes_tac>>
             ELSE resp'.detail # MensajeFechas]_vars

(* A registration was rejected for its dates after one with equal dates was stored *)
C5_Testigo ==
    /\ resp.op = "crear_examen_tac"
    /\ resp.status = 422
    /\ resp.detail = MensajeFechas
    /\ \E b \in examenes_base : \E t \in FilasDe(examenes_tac, b.id) :
          t.fecha_solicitud = b.fecha_realizacion

(* The vfge values that are the sentinel, written out in each letter case sent *)
Centinelas == {SinCreatinina, SinCreatininaTitulo, SinCreatininaMayus}

ExigePremedicado(d) ==
    /\ d.vfge # None
    /\ Len(Val(d.vfge)) > 0
    /\ Val(d.vfge) \notin Centinelas
    /\ d.premedicado = None

(* C7: a CT registration whose vfge is present, non-empty and not the sentinel
   "sin creatinina" in any letter case, with premedicado null, is answered 422 and
   stores nothing; with vfge absent, empty or the sentinel in any case, or with
   premedicado given, a registration with valid dates is accepted. *)
C7_VfgeExigePremedicado ==
    [][\A d \in PayloadsValidacion :
          (crear_examen_tac(TokIngresador, d)
           /\ d.fecha_solicitud <= d.fecha_realizacion)
          => IF ExigePremedicado(d)
             THEN /\ resp'.status = 422
                  /\ resp'.detail = MensajePremedicado
                  /\ UNCHANGED <<pacientes, examenes_base, examenes_tac>>
             ELSE /\ resp'.status = 201
                  /\ \E t \in examenes_tac' \ examenes_tac :
                        t.vfge = d.vfge /\ t.premedicado = d.premedicado]_vars

(* A numeric vfge without premedicado was rejected after "Sin Creatinina" without
   premedicado was stored *)
C7_Testigo ==
    /\ resp.op = "crear_examen_tac"
    /\ resp.status = 422
    /\ resp.detail = MensajePremedicado
    /\ \E t \in examenes_tac :
          t.vfge = Some(SinCreatininaTitulo) /\ t.premedicado = None

----------------------------------------------------------------------------
(* SpecEdad: calcular_edad applied to a birth date and a reference date drawn from
   the days around a birthday, and CT registrations on the reference date with and
   without the birth date. *)

FechasNacimiento ==
    {Fecha(y, m, d) : y \in {2000, 2023}, m \in {5, 6, 7}, d \in {14, 15, 16}}

FechasReferencia == {Fecha(2024, m, d) : m \in {5, 6, 7}, d \in {14, 15, 16}}

InitEdad ==
    /\ usuarios = {Admin, Ingresador}
    /\ pacientes = {}
    /\ examenes_base = {}
    /\ examenes_tac = {}
    /\ examenes_rx = {}
    /\ examenes_eco = {}
    /\ seq_usuario = 3
    /\ seq_paciente = 1
    /\ seq_examen = 1
    /\ reloj = 1
    /\ sesiones = <<>>
    /\ credenciales = {}
    /\ puro \in {[fecha_nacimiento |-> n, fecha_referencia |-> r, edad |-> None] :
                    n \in FechasNacimiento, r \in FechasReferencia}
    /\ resp = SinRespuesta

aplicar_calcular_edad ==
    /\ puro.edad = None
    /\ puro' = [puro EXCEPT
                   !.edad = Some(calcular_edad(puro.fecha_nacimiento,
                                               puro.fecha_referencia))]
    /\ UNCHANGED <<db, sesiones, credenciales, resp>>

NextEdad ==
    \/ aplicar_calcular_edad
    \/ \E fn \in {None, Some(puro.fecha_nacimiento)} :
          /\ HayCupo(RutK)
          /\ crear_examen_tac(TokIngresador,
                Con([fecha_nacimiento |-> fn,
                     fecha_realizacion |-> puro.fecha_referencia,
                     fecha_solicitud |-> puro.fecha_referencia], TAC0))

SpecEdad == InitEdad /\ [][NextEdad]_vars

(* The age the claim states: the difference of the years, less one exactly when the
   (month, day) of the realization date precedes the (month, day) of the birth date *)
EdadEsperada(nacimiento, realizacion) ==
    (realizacion \div 10000) - (nacimiento \div 10000)
    - (IF realizacion % 10000 < nacimiento % 10000 THEN 1 ELSE 0)

(* C9: the derived age is the difference of the years, decremented by one exactly
   when the realization (month, day) precedes the birth (month, day); birth
   2000-06-15 gives 23 on 2024-06-14 and 24 on 2024-06-15 and 2024-06-16; a CT exam
   registered without a birth date stores a null age, one with a birth date the
   derived age. *)
C9_EdadDerivada ==
    /\ puro.edad # None =>
          /\ Val(puro.edad) = EdadEsperada(puro.fecha_nacimiento, puro.fecha_referencia)
          /\ puro.fecha_nacimiento = Fecha(2000, 6, 15) =>
                /\ puro.fecha_referencia = Fecha(2024, 6, 14) => Val(puro.edad) = 23
                /\ puro.fecha_referencia = Fecha(2024, 6, 15) => Val(puro.edad) = 24
                /\ puro.fecha_referencia = Fecha(2024, 6, 16) => Val(puro.edad) = 24
    /\ \A b \in examenes_base : \A t \in FilasDe(examenes_tac, b.id) :
          t.edad = IF t.fecha_nacimiento = None THEN None
                   ELSE Some(EdadEsperada(Val(t.fecha_nacimiento), b.fecha_realizacion))

(* The day before the 24th birthday: 23 derived, stored for the exam registered
   with the birth date, and null stored for the exam registered without *)
C9_Testigo ==
    /\ puro.fecha_nacimiento = Fecha(2000, 6, 15)
    /\ puro.fecha_referencia = Fecha(2024, 6, 14)
    /\ puro.edad = Some(23)
    /\ \E t \in examenes_tac : t.fecha_nacimiento = None /\ t.edad = None
    /\ \E t \in examenes_tac : t.fecha_nacimiento # None /\ t.edad = Some(23)

----------------------------------------------------------------------------
(* SpecRoles: every administrator-only operation called by the administrator and by
   the data-entry user, on ids that exist and on one that does not, while users are
   created, deactivated and deleted. *)

Usuario0 ==
    [rut |-> Rut9, email |-> "nuevo@hospital.cl", rol |-> "ingresador",
     password |-> "clave-nueva"]

Revision0 == [en_revision |-> TRUE, motivo |-> Some("fecha dudosa")]

(* The administrator-only operations on the exam `id` *)
LlamadaAdminExamen(tok, id) ==
    \/ actualizar_examen_tac(tok, id, [atencion |-> Some("Cerrada")])
    \/ actualizar_examen_rx(tok, id, [atencion |-> Some("Cerrada")])
    \/ actualizar_examen_eco(tok, id, [atencion |-> Some("Cerrada")])
    \/ eliminar_examen_tac(tok, id)
    \/ eliminar_examen_rx(tok, id)
    \/ eliminar_examen_eco(tok, id)
    \/ marcar_examen_revision(tok, id, Revision0)

(* The administrator-only operations on the user `id` *)
LlamadaAdminUsuario(tok, id) ==
    \/ toggle_usuario(tok, id)
    \/ \E eliminar_examenes \in BOOLEAN : eliminar_usuario(tok, id, eliminar_examenes)

(* The administrator-only operations that take no id *)
LlamadaAdminSinId(tok) ==
    \/ listar_examenes_revision(tok, None)
    \/ exportar_respaldo_excel(tok, None, None)
    \/ listar_usuarios(tok, None, None)
    \/ seq_usuario <= MaxUsuarios /\ crear_usuario_ingresador(tok, Usuario0)

(* The first exam and the user the administrator creates, and an id of neither *)
IdsExamen == {1, IdAusente}
IdsUsuario == {MaxUsuarios, IdAusente}

NextRoles ==
    \/ HayCupo(RutK) /\ crear_examen_tac(TokIngresador, TAC0)
    \/ HayCupo(RutK) /\ crear_examen_rx(TokIngresador, RX0)
    \/ HayCupo(RutK) /\ crear_examen_eco(TokIngresador, ECO0)
    \/ \E tok \in {TokAdmin, TokIngresador}, id \in IdsExamen :
          LlamadaAdminExamen(tok, id)
    \/ \E tok \in {TokAdmin, TokIngresador}, id \in IdsUsuario :
          LlamadaAdminUsuario(tok, id)
    \/ \E tok \in {TokAdmin, TokIngresador} : LlamadaAdminSinId(tok)

SpecRoles == Init /\ [][NextRoles]_vars

EstandarActivo(tok) ==
    \E u \in usuarios : u.id = Val(tok) /\ u.activo /\ u.rol = "ingresador"

AdministradorActivo(tok) ==
    \E u \in usuarios : u.id = Val(tok) /\ u.activo /\ u.rol = "administrador"

(* C10: every administrator-only operation called by an active standard-role user
   is answered 403 and changes no state, also for an id that does not exist; the
   same call by an active administrator on an id that does not exist is answered
   404. *)
C10_SoloAdministrador ==
    [][/\ EstandarActivo(TokIngresador) =>
            /\ \A id \in IdsExamen :
                  LlamadaAdminExamen(TokIngresador, id)
                  => resp'.status = 403 /\ UNCHANGED db
            /\ \A id \in IdsUsuario :
                  LlamadaAdminUsuario(TokIngresador, id)
                  => resp'.status = 403 /\ UNCHANGED db
            /\ LlamadaAdminSinId(TokIngresador)
                  => resp'.status = 403 /\ UNCHANGED db
       /\ AdministradorActivo(TokAdmin) =>
            ((LlamadaAdminExamen(TokAdmin, IdAusente)
              \/ LlamadaAdminUsuario(TokAdmin, IdAusente))
             => resp'.status = 404 /\ UNCHANGED db)]_vars

(* The active data-entry user was refused an update while an exam is stored *)
C10_Testigo ==
    /\ EstandarActivo(TokIngresador)
    /\ resp.op = "actualizar_examen_tac"
    /\ resp.status = 403
    /\ \E b \in examenes_base : b.tipo_examen = "TAC" /\ b.deleted_at = None

----------------------------------------------------------------------------
(* SpecCuenta: the data-entry user logs in, the administrator deactivates,
   reactivates and deletes the account, time passes, and protected operations are
   called with every token issued so far, with no token, and with a token the
   server did not sign. *)

MaxReloj == 3

TokenAjeno == [sub |-> 2, rol |-> "ingresador", exp |-> MaxReloj + 9, firma |-> "otra"]

(* What a request can carry in its Authorization header *)
Portadores == {None, Some(TokenAjeno)} \cup {Some(c) : c \in credenciales}

IntentosLogin ==
    {[email |-> Ingresador.email, password |-> pw] : pw \in {"clave-ingreso", "otra-clave"}}

pasa_el_tiempo ==
    /\ reloj < MaxReloj
    /\ reloj' = reloj + 1
    /\ UNCHANGED <<usuarios, pacientes, examenes_base, examenes_tac, examenes_rx,
                   examenes_eco, seq_usuario, seq_paciente, seq_examen, sesiones, puro,
                   credenciales, resp>>

(* Protected operations, one behind each dependency: require_ingresador_o_admin,
   get_current_user (twice, one with its own role check), require_admin *)
LlamadaProtegida(tok) ==
    \/ HayCupo(RutK) /\ crear_examen_rx(tok, RX0)
    \/ actualizar_mi_perfil(tok, [email |-> Some("otro@hospital.cl")])
    \/ eliminar_paciente(tok, 1)
    \/ listar_usuarios(tok, None, None)

NextCuenta ==
    \/ \E login_data \in IntentosLogin : login(login_data)
    \/ \E login_data \in IntentosLogin :
          login_for_access_token([username |-> login_data.email,
                                  password |-> login_data.password])
    \/ toggle_usuario(TokAdmin, Ingresador.id)
    \/ \E eliminar_examenes \in BOOLEAN :
          eliminar_usuario(TokAdmin, Ingresador.id, eliminar_examenes)
    \/ pasa_el_tiempo
    \/ \E token \in Portadores : LlamadaProtegida(decode_access_token(token))

SpecCuenta == Init /\ [][NextCuenta]_vars

Desactivada(uid) == \E u \in usuarios : u.id = uid /\ ~u.activo

Existe(uid) == \E u \in usuarios : u.id = uid

(* The token is one the server signed and has not expired *)
Vigente(token) ==
    token # None /\ Val(token).firma = "servidor" /\ Val(token).exp > reloj

(* C11: while an account is deactivated every protected operation called with a
   token of that account, issued before and unexpired, is answered 403 "Usuario
   inactivo" and changes no state, and no login of the account issues a token; a
   missing, foreign or expired token, or one of an account that no longer exists, is
   answered 401. *)
C11_CuentaDesactivada ==
    [][/\ \A token \in Portadores :
            LlamadaProtegida(decode_access_token(token))
            => /\ (~Vigente(token) \/ ~Existe(Val(token).sub))
                  => resp'.status = 401 /\ UNCHANGED db
               /\ (Vigente(token) /\ Desactivada(Val(token).sub))
                  => /\ resp'.status = 403
                     /\ resp'.detail = "Usuario inactivo. Contacta al administrador."
                     /\ UNCHANGED db
       /\ \A login_data \in IntentosLogin :
            (/\ Desactivada(Ingresador.id)
             /\ \/ login(login_data)
                \/ login_for_access_token([username |-> login_data.email,
                                           password |-> login_data.password]))
            => /\ resp'.status \in {401, 403}
               /\ UNCHANGED <<db, credenciales>>]_vars

(* The deactivated account was refused an operation while a token issued to it
   before the deactivation is still unexpired *)
C11_Testigo ==
    /\ Desactivada(Ingresador.id)
    /\ \E c \in credenciales : c.sub = Ingresador.id /\ c.exp > reloj
    /\ resp.op = "crear_examen_rx"
    /\ resp.status = 403
    /\ resp.detail = "Usuario inactivo. Contacta al administrador."

----------------------------------------------------------------------------
(* SpecPropia: each of the two users calls the operations that deactivate or remove
   an account, on its own account and on the other's, and the data-entry user
   registers exams. *)

Actores == {TokAdmin, TokIngresador}

Claves == {"clave-admin", "clave-ingreso"}

(* The operations by which the actor of `tok` can end an account *)
LlamadaSobreCuenta(tok) ==
    \/ \E id \in {Admin.id, Ingresador.id} : toggle_usuario(tok, id)
    \/ \E id \in {Admin.id, Ingresador.id}, eliminar_examenes \in BOOLEAN :
          eliminar_usuario(tok, id, eliminar_examenes)
    \/ \E password \in Claves : eliminar_mi_cuenta(tok, password)

NextPropia ==
    \/ HayCupo(RutK) /\ crear_examen_rx(TokIngresador, RX0)
    \/ HayCupo(RutK) /\ crear_examen_eco(TokAdmin, ECO0)
    \/ \E tok \in Actores : LlamadaSobreCuenta(tok)

SpecPropia == Init /\ [][NextPropia]_vars

(* C12: no operation performed by a user ends with that user's own account
   deactivated or removed. *)
C12_NoSobreSiMismo ==
    [][\A tok \in Actores :
          LlamadaSobreCuenta(tok)
          => \A u \in usuarios :
                (u.id = Val(tok) /\ u.activo)
                => \E v \in usuarios' : v.id = u.id /\ v.activo]_vars

----------------------------------------------------------------------------
(* SpecBorrado: the data-entry user registers exams, a second administrator
   self-registers and updates or soft-deletes them, and the first administrator
   deletes either account, with and without the cascade. *)

RutAdmin2 == <<"1", "0", "0", "0", "0", "0", "0", "-", "9">>

Admin2 ==
    [rut |-> RutAdmin2, email |-> "admin2@hospital.cl", password |-> "clave-admin2",
     admin_secret |-> ADMIN_SECRET_KEY]

TokAdmin2 == Some(MaxUsuarios)

Borrables == {Ingresador.id, MaxUsuarios}

NextBorrado ==
    \/ HayCupo(RutK) /\ crear_examen_rx(TokIngresador, RX0)
    \/ HayCupo(RutK) /\ crear_examen_tac(TokIngresador, TAC0)
    \/ seq_usuario <= MaxUsuarios /\ registrar_admin(Admin2)
    \/ \E id \in 1..MaxExamenes :
          actualizar_examen_rx(TokAdmin2, id, [atencion |-> Some("Cerrada")])
    \/ \E id \in 1..MaxExamenes : eliminar_examen_tac(TokAdmin2, id)
    \/ \E id \in Borrables, eliminar_examenes \in BOOLEAN :
          eliminar_usuario(TokAdmin, id, eliminar_examenes)

SpecBorrado == Init /\ [][NextBorrado]_vars

ExamenesDe(uid) == {e \in examenes_base : e.created_by = Some(uid)}

(* C13: deleting user U as administrator: with exams created by U and no cascade
   it fails and leaves U and every exam unchanged; with the cascade every exam
   created by U ends soft-deleted, its row kept, and U is removed; when U created no
   exam, U is removed and no exam changes. *)
C13_BorradoDeUsuario ==
    [][\A id \in Borrables, eliminar_examenes \in BOOLEAN :
          (eliminar_usuario(TokAdmin, id, eliminar_examenes) /\ Existe(id))
          => IF ExamenesDe(id) # {} /\ ~eliminar_examenes
             THEN resp'.status = 400 /\ UNCHANGED <<usuarios, examenes_base>>
             ELSE IF ExamenesDe(id) # {}
             THEN /\ ~\E u \in usuarios' : u.id = id
                  /\ {e.id : e \in examenes_base'} = {e.id : e \in examenes_base}
                  /\ \A e \in ExamenesDe(id) : \E f \in examenes_base' :
                        f.id = e.id /\ f.deleted_at # None
             ELSE /\ ~\E u \in usuarios' : u.id = id
                  /\ examenes_base' = examenes_base]_vars

----------------------------------------------------------------------------
(* SpecAlta: accounts are created by either user through crear_usuario_ingresador,
   naming either role, and by self-registration with the right and a wrong secret;
   the accounts then change their email and are deactivated and reactivated. *)

AltasPorAdmin ==
    {[rut |-> Rut9, email |-> "nuevo@hospital.cl", rol |-> "ingresador",
      password |-> "clave-nueva"],
     [rut |-> Rut9, email |-> "jefe@hospital.cl", rol |-> "administrador",
      password |-> "clave-nueva"]}

AltasConSecreto ==
    {[Admin2 EXCEPT !.admin_secret = secreto] : secreto \in {ADMIN_SECRET_KEY, "otra"}}

TodosLosActores == {TokAdmin, TokIngresador, Some(MaxUsuarios)}

NextAlta ==
    \/ \E tok \in TodosLosActores, usuario_data \in AltasPorAdmin :
          seq_usuario <= MaxUsuarios /\ crear_usuario_ingresador(tok, usuario_data)
    \/ \E usuario_data \in AltasConSecreto :
          seq_usuario <= MaxUsuarios /\ registrar_admin(usuario_data)
    \/ \E tok \in TodosLosActores :
          actualizar_mi_perfil(tok, [email |-> Some("otro@hospital.cl")])
    \/ \E tok \in TodosLosActores, id \in Borrables : toggle_usuario(tok, id)

SpecAlta == Init /\ [][NextAlta]_vars

(* C14: an account created through crear_usuario_ingresador gets the standard role
   and the forced-password-change flag whatever role the request names; a new
   administrator account appears only by registrar_admin with the matching secret;
   registrar_admin with a wrong secret is answered 403 and creates nothing; no
   operation changes the role of an existing account. *)
C14_RolPorOrigen ==
    [][/\ \A tok \in TodosLosActores, usuario_data \in AltasPorAdmin :
            (crear_usuario_ingresador(tok, usuario_data) /\ resp'.status = 201)
            => \E u \in usuarios' :
                  /\ usuarios' = usuarios \cup {u}
                  /\ u \notin usuarios
                  /\ u.rol = "ingresador"
                  /\ u.debe_cambiar_password
       /\ \A usuario_data \in AltasConSecreto :
            registrar_admin(usuario_data)
            => IF usuario_data.admin_secret # ADMIN_SECRET_KEY
               THEN resp'.status = 403 /\ UNCHANGED db
               ELSE resp'.status = 201
                    => \E u \in usuarios' \ usuarios : u.rol = "administrador"
       /\ \A u \in usuarios' :
            IF \E v \in usuarios : v.id = u.id
            THEN \A v \in usuarios : v.id = u.id => v.rol = u.rol
            ELSE u.rol = "administrador"
                 <=> (resp'.op = "registrar_admin" /\ resp'.status = 201)]_vars

(* The account the administrator created naming the administrator role holds the
   standard role and must change its password *)
C14_Testigo ==
    /\ resp.op = "crear_usuario_ingresador"
    /\ resp.status = 201
    /\ \E u \in usuarios :
          /\ u.email = "jefe@hospital.cl"
          /\ u.rol = "ingresador"
          /\ u.debe_cambiar_password

----------------------------------------------------------------------------
(* SpecIdentidad: accounts are created by the administrator and by self-registration
   with national IDs and emails that are new or already held, the IDs written with
   and without separators; the accounts change their email. *)

RutAdminConPuntos == <<"1", ".", "0", "0", "0", ".", "0", "1", "3", "-", "0">>

RutIngresadorConGuion == <<"1", "0", "0", "0", "0", "0", "2", "-", "5">>

RutsDeAlta == {Rut9, RutAdminConPuntos, RutIngresadorConGuion}

EmailsDeAlta == {"nuevo@hospital.cl", "admin@hospital.cl"}

NextIdentidad ==
    \/ \E rut \in RutsDeAlta, email \in EmailsDeAlta :
          /\ seq_usuario <= MaxUsuarios
          /\ crear_usuario_ingresador(TokAdmin,
                 [rut |-> rut, email |-> email, rol |-> "ingresador",
                  password |-> "clave-nueva"])
    \/ \E rut \in RutsDeAlta, email \in EmailsDeAlta :
          /\ seq_usuario <= MaxUsuarios
          /\ registrar_admin([rut |-> rut, email |-> email, password |-> "clave-nueva",
                              admin_secret |-> ADMIN_SECRET_KEY])
    \/ \E tok \in TodosLosActores, email \in EmailsDeAlta \cup {"ingreso@hospital.cl"} :
          actualizar_mi_perfil(tok, [email |-> Some(email)])
    \/ \E tok \in TodosLosActores, id \in Borrables : toggle_usuario(tok, id)

SpecIdentidad == Init /\ [][NextIdentidad]_vars

(* C15: in every reachable state no two accounts have the same national ID, whatever
   separators it was submitted with, and no two have the same email. *)
C15_IdentidadUnica ==
    \A u, v \in usuarios :
        u.id # v.id => limpiar_rut(u.rut) # limpiar_rut(v.rut) /\ u.email # v.email

----------------------------------------------------------------------------
(* SpecPaciente: the patient registry.  Exams of the three types are registered and
   patients created explicitly, for a RUT that is valid or not, written with an
   upper-case and a lower-case check character, with and without a name, with and
   without a birth date. *)

Eva == <<"E", "v", "a">>
Nac2 == Fecha(1990, 1, 2)

RutsPaciente == {RutK, Rutk, Rut9, RutMalo}
Nombres == {None, Some(Ana), Some(Eva)}
Nacimientos == {None, Some(Nac), Some(Nac2)}

RegistrosTAC ==
    {Con([paciente_rut |-> rut, paciente_nombre |-> nombre, fecha_nacimiento |-> nac],
         TAC0) : rut \in RutsPaciente, nombre \in Nombres, nac \in Nacimientos}

RegistrosRX ==
    {Con([paciente_rut |-> rut, paciente_nombre |-> nombre], RX0) :
        rut \in RutsPaciente, nombre \in Nombres}

RegistrosECO ==
    {Con([paciente_rut |-> rut, paciente_nombre |-> nombre], ECO0) :
        rut \in RutsPaciente, nombre \in Nombres}

PacientesNuevos ==
    {[rut |-> rut, nombre_completo |-> Eva, fecha_nacimiento |-> nac] :
        rut \in RutsPaciente, nac \in {None, Some(Nac2)}}

NextPaciente ==
    \/ \E d \in RegistrosTAC :
          HayCupo(d.paciente_rut) /\ crear_examen_tac(TokIngresador, d)
    \/ \E d \in RegistrosRX :
          HayCupo(d.paciente_rut) /\ crear_examen_rx(TokIngresador, d)
    \/ \E d \in RegistrosECO :
          HayCupo(d.paciente_rut) /\ crear_examen_eco(TokIngresador, d)
    \/ \E tok \in Actores, paciente_data \in PacientesNuevos :
          seq_paciente <= MaxPacientes /\ crear_paciente(tok, paciente_data)

SpecPaciente == Init /\ [][NextPaciente]_vars

Registros == {"crear_examen_tac", "crear_examen_rx", "crear_examen_eco"}

(* a and b write the same RUT: equal once the separators are stripped and the check
   character upper-cased *)
MismoRut(a, b) == upper(limpiar_rut(a)) = upper(limpiar_rut(b))

(* The call just answered registered an exam for the patient the RUT of d denotes *)
RecienRegistrado(d) ==
    /\ resp.op \in Registros
    /\ resp.status = 201
    /\ \E p \in pacientes :
          p.id = resp.body.paciente_id /\ MismoRut(p.rut, d.paciente_rut)

MismoPaciente ==
    /\ resp'.status = 201
    /\ resp'.body.paciente_id = resp.body.paciente_id
    /\ pacientes' = pacientes
    /\ seq_paciente' = seq_paciente

(* C16: a registration without birth date that follows a registration for the same
   RUT resolves to the same patient id, creates no patient row and changes no field
   of any patient. *)
C16_Idempotente ==
    [][/\ \A d \in RegistrosTAC :
            (crear_examen_tac(TokIngresador, d) /\ d.fecha_nacimiento = None
                /\ RecienRegistrado(d))
            => MismoPaciente
       /\ \A d \in RegistrosRX :
            (crear_examen_rx(TokIngresador, d) /\ RecienRegistrado(d)) => MismoPaciente
       /\ \A d \in RegistrosECO :
            (crear_examen_eco(TokIngresador, d) /\ RecienRegistrado(d)) => MismoPaciente]_vars

(* q is the row of p after the step, its id, RUT and name as before *)
Conserva(p, q) ==
    q.id = p.id /\ q.rut = p.rut /\ q.nombre_completo = p.nombre_completo

(* C17: a registration leaves the name of every existing patient as it was and its
   birth date too, except that a CT registration supplying a birth date for a patient
   whose stored birth date is absent stores it; RX and ECO registrations leave every
   existing patient row as it was. *)
C17_NacimientoSoloSiAusente ==
    [][/\ \A d \in RegistrosTAC :
            crear_examen_tac(TokIngresador, d)
            => \A p \in pacientes :
                  \E q \in pacientes' :
                     /\ Conserva(p, q)
                     /\ q.fecha_nacimiento =
                           IF /\ p.rut = limpiar_rut(d.paciente_rut)
                              /\ p.fecha_nacimiento = None
                              /\ resp'.status = 201
                           THEN d.fecha_nacimiento
                           ELSE p.fecha_nacimiento
       /\ \A d \in RegistrosRX :
            crear_examen_rx(TokIngresador, d) => pacientes \subseteq pacientes'
       /\ \A d \in RegistrosECO :
            crear_examen_eco(TokIngresador, d) => pacientes \subseteq pacientes']_vars

(* A CT exam carries a birth date other than the one its patient keeps *)
C17_Testigo ==
    \E p \in pacientes, e \in examenes_base, t \in examenes_tac :
        /\ e.id = t.examen_base_id
        /\ e.paciente_id = p.id
        /\ p.fecha_nacimiento # None
        /\ t.fecha_nacimiento # None
        /\ t.fecha_nacimiento # p.fecha_nacimiento

NadieCon(rut) == \A p \in pacientes : p.rut # limpiar_rut(rut)

RechazoPaciente(d) ==
    /\ d.paciente_rut = RutMalo
       => resp'.status = 400 /\ resp'.detail = "RUT invalido" /\ UNCHANGED db
    /\ (d.paciente_rut # RutMalo /\ d.paciente_nombre = None /\ NadieCon(d.paciente_rut))
       => /\ resp'.status = 400
          /\ resp'.detail = "Debe proporcionar el nombre del paciente"
          /\ UNCHANGED db

(* C18: a registration for a RUT whose check digit is wrong is answered 400 "RUT
   invalido", with or without a name; a registration without a name for a valid RUT
   no patient has is answered 400; neither creates a patient or an exam. *)
C18_RutONombreFaltante ==
    [][/\ \A d \in RegistrosTAC :
            crear_examen_tac(TokIngresador, d) => RechazoPaciente(d)
       /\ \A d \in RegistrosRX :
            crear_examen_rx(TokIngresador, d) => RechazoPaciente(d)
       /\ \A d \in RegistrosECO :
            crear_examen_eco(TokIngresador, d) => RechazoPaciente(d)]_vars

(* A registration was refused for its RUT *)
C18_Testigo ==
    /\ resp.op \in Registros
    /\ resp.status = 400
    /\ resp.detail = "RUT invalido"

YaRegistrado(rut) == \E p \in pacientes : MismoRut(p.rut, rut)

(* C19: crear_paciente for a RUT a patient already has, whether that patient was
   created explicitly or by a registration, is answered 400 "Paciente ya existe" and
   changes nothing; for a RUT whose check digit is wrong it is answered 400 "RUT
   invalido" and creates nothing. *)
C19_PacienteDuplicado ==
    [][\A tok \in Actores, paciente_data \in PacientesNuevos :
          crear_paciente(tok, paciente_data)
          => /\ paciente_data.rut = RutMalo
                => resp'.status = 400 /\ resp'.detail = "RUT invalido" /\ UNCHANGED db
             /\ YaRegistrado(paciente_data.rut)
                => /\ resp'.status = 400
                   /\ resp'.detail = "Paciente ya existe"
                   /\ UNCHANGED db]_vars

----------------------------------------------------------------------------
(* SpecArchivo: patients are created explicitly and by registrations, exams are
   soft-deleted, and both users ask for the deletion of a patient. *)

NextArchivo ==
    \/ \E d \in {TAC0, Con([paciente_rut |-> Rut9], TAC0)} :
          HayCupo(d.paciente_rut) /\ crear_examen_tac(TokIngresador, d)
    \/ \E d \in {RX0, Con([paciente_rut |-> Rut9], RX0)} :
          HayCupo(d.paciente_rut) /\ crear_examen_rx(TokIngresador, d)
    \/ \E rut \in {RutK, Rut9} :
          /\ seq_paciente <= MaxPacientes
          /\ crear_paciente(TokIngresador, [rut |-> rut, nombre_completo |-> Ana,
                                            fecha_nacimiento |-> None])
    \/ \E id \in 1..MaxExamenes : eliminar_examen_tac(TokAdmin, id)
    \/ \E id \in 1..MaxExamenes : eliminar_examen_rx(TokAdmin, id)
    \/ \E tok \in Actores, id \in 1..MaxPacientes : eliminar_paciente(tok, id)

SpecArchivo == Init /\ [][NextArchivo]_vars

ExamenesDelPaciente(paciente_id) ==
    {e \in examenes_base : e.paciente_id = paciente_id}

(* C20: a patient row leaves the store only in an eliminar_paciente step of the
   administrator for a patient no exam row references; eliminar_paciente for a
   patient that exam rows reference, soft-deleted or not, leaves the patient and
   every exam row in the store; eliminar_paciente by the data-entry user is answered
   403 and changes nothing. *)
C20_PacienteConExamenes ==
    [][/\ \A tok \in Actores, id \in 1..MaxPacientes :
            eliminar_paciente(tok, id)
            => /\ tok = TokIngresador => resp'.status = 403 /\ UNCHANGED db
               /\ ExamenesDelPaciente(id) # {}
                  => /\ pacientes' = pacientes
                     /\ examenes_base' = examenes_base
                     /\ examenes_tac' = examenes_tac
                     /\ examenes_rx' = examenes_rx
                     /\ examenes_eco' = examenes_eco
       /\ \A p \in pacientes :
            (\A q \in pacientes' : q.id # p.id)
            => /\ resp'.op = "eliminar_paciente"
               /\ ExamenesDelPaciente(p.id) = {}]_vars

----------------------------------------------------------------------------
(* SpecBaja: exams are registered, flagged, updated and soft-deleted; their creator
   and their patient are deleted; the listings, the read by id, the
   review list, the export and the general statistics are read in between. *)

SinFiltros ==
    [fecha_inicio |-> None, fecha_fin |-> None, paciente_rut |-> None, mes |-> None,
     anio |-> None]

(* The operations on the exam `id` that need it to exist and not be deleted *)
LlamadaSobreExamen(tok, id) ==
    \/ eliminar_examen_tac(tok, id)
    \/ eliminar_examen_rx(tok, id)
    \/ actualizar_examen_tac(tok, id, [atencion |-> Some("Cerrada")])
    \/ actualizar_examen_rx(tok, id, [atencion |-> Some("Cerrada")])
    \/ marcar_examen_revision(tok, id, Revision0)

(* The reads of the exams *)
Lectura(tok) ==
    \/ listar_examenes_tac(tok, SinFiltros, 0, 100)
    \/ listar_examenes_rx(tok, SinFiltros, 0, 100)
    \/ \E id \in 1..MaxExamenes : obtener_examen_tac(tok, id)
    \/ \E id \in 1..MaxExamenes : obtener_examen_rx(tok, id)
    \/ listar_examenes_revision(tok, None)
    \/ exportar_respaldo_excel(tok, None, None)
    \/ estadisticas_generales(tok, None, None)

NextBaja ==
    \/ HayCupo(RutK) /\ crear_examen_rx(TokIngresador, RX0)
    \/ HayCupo(RutK) /\ crear_examen_tac(TokIngresador, TAC0)
    \/ \E id \in 1..MaxExamenes : LlamadaSobreExamen(TokAdmin, id)
    \/ \E eliminar_examenes \in BOOLEAN :
          eliminar_usuario(TokAdmin, Ingresador.id, eliminar_examenes)
    \/ eliminar_paciente(TokAdmin, 1)
    \/ Lectura(TokAdmin)

SpecBaja == Init /\ [][NextBaja]_vars

Eliminados == {e \in examenes_base : e.deleted_at # None}

(* The ids a successful read returned; the statistics return a count instead *)
IdsLeidos(r) ==
    CASE r.op \in {"listar_examenes_tac", "listar_examenes_rx"} ->
              {r.body[i] : i \in DOMAIN r.body}
      [] r.op \in {"obtener_examen_tac", "obtener_examen_rx"} -> {r.body.id}
      [] r.op = "listar_examenes_revision" -> r.body.examenes
      [] r.op = "exportar_respaldo_excel" -> r.body.TAC \cup r.body.RX \cup r.body.ECO
      [] OTHER -> {}

(* No read of the step shows a soft-deleted exam *)
LecturasSinEliminados ==
    (Lectura(TokAdmin) /\ resp'.status = 200)
    => /\ IdsLeidos(resp') \cap {e.id : e \in Eliminados} = {}
       /\ resp'.op = "estadisticas_generales"
          => resp'.body.total_examenes = Cardinality(examenes_base \ Eliminados)

(* The rows and the audit fields of the soft-deleted exams are after the step what
   they were before it *)
EliminadosConservados ==
    \A e \in Eliminados :
        /\ e \in examenes_base'
        /\ \A x \in examenes_tac : x.examen_base_id = e.id => x \in examenes_tac'
        /\ \A x \in examenes_rx : x.examen_base_id = e.id => x \in examenes_rx'

(* C21: once an exam is soft-deleted no read shows it again (the listings, the read
   by id, the review list, the export, the statistics), no step changes or removes
   its base row, its specialization row or its audit fields, and a further soft
   delete, update or review flag on its id is answered 404. *)
C21_EliminadoOcultoYConservado ==
    [][/\ LecturasSinEliminados
       /\ EliminadosConservados
       /\ \A e \in Eliminados :
            LlamadaSobreExamen(TokAdmin, e.id) => resp'.status = 404 /\ UNCHANGED db]_vars

(* C29: the deletion timestamp of an exam is written once: in every step, an exam that
   is soft-deleted and still stored keeps its deleted_at and its updated_by, whatever
   the operation (a second deletion, an update, a review flag, the deletion of its
   creator with the cascade over the creator's exams). *)
C29_BajaEscritaUnaVez ==
    [][\A e \in Eliminados : \A n \in examenes_base' :
          n.id = e.id => n.deleted_at = e.deleted_at /\ n.updated_by = e.updated_by]_vars

----------------------------------------------------------------------------
(* SpecActualiza: CT exams registered with and without a birth date, and RX exams,
   some of these soft-deleted, are updated by the administrator, each update
   supplying other fields, for ids of the type, of the other type, soft-deleted and
   absent. *)

ActualizacionesTAC ==
    {[fecha_realizacion |-> Some(F0)],
     [fecha_nacimiento |-> Some(Nac2)],
     [fecha_nacimiento |-> None],
     [atencion |-> Some("Cerrada"), medico_solicitante_id |-> Some(1)]}

ActualizacionesRX ==
    {[fecha_realizacion |-> Some(F0)], [hora_realizacion |-> Some(10)]}

IdsActualizados == 1..MaxExamenes \cup {IdAusente}

NextActualiza ==
    \/ \E nac \in {None, Some(Nac)} :
          /\ HayCupo(RutK)
          /\ crear_examen_tac(TokIngresador, Con([fecha_nacimiento |-> nac], TAC0))
    \/ HayCupo(RutK) /\ crear_examen_rx(TokIngresador, RX0)
    \/ \E id \in 1..MaxExamenes : eliminar_examen_rx(TokAdmin, id)
    \/ \E id \in IdsActualizados, u \in ActualizacionesTAC :
          actualizar_examen_tac(TokAdmin, id, u)
    \/ \E id \in IdsActualizados, u \in ActualizacionesRX :
          actualizar_examen_rx(TokAdmin, id, u)

SpecActualiza == Init /\ [][NextActualiza]_vars

(* The fields of a row that an update supplying the fields of u may change *)
Derivados == {"mes_realizacion", "anio_realizacion", "edad", "updated_by"}

(* Every field of fila that u does not supply and that is not derived is in nueva
   what it is in fila *)
SoloLoDado(fila, nueva, u) ==
    /\ DOMAIN nueva = DOMAIN fila
    /\ \A c \in DOMAIN fila \ (DOMAIN u \cup Derivados) : nueva[c] = fila[c]

(* The effect on the tables of an update of the exam `id` of type `tipo`, whose
   specialization rows are `especificos` before and `especificos_n` after *)
EfectoActualizar(id, tipo, especificos, especificos_n, u) ==
    IF buscar_examen(id, tipo) = {}
    THEN resp'.status = 404 /\ UNCHANGED db
    ELSE /\ resp'.status = 200
            => \E b \in examenes_base' : b.id = id /\ b.updated_by = TokAdmin
         /\ \A b \in examenes_base :
               \E n \in examenes_base' :
                  /\ n.id = b.id
                  /\ IF b.id = id THEN SoloLoDado(b, n, u) ELSE n = b
         /\ Cardinality(examenes_base') = Cardinality(examenes_base)
         /\ \A x \in especificos :
               \E n \in especificos_n :
                  /\ n.examen_base_id = x.examen_base_id
                  /\ IF x.examen_base_id = id THEN SoloLoDado(x, n, u) ELSE n = x
         /\ Cardinality(especificos_n) = Cardinality(especificos)
         /\ UNCHANGED <<usuarios, pacientes, examenes_eco>>

(* C22: an update of an id that has no non-deleted exam of that type (an exam of the
   other type, a soft-deleted one, none) is answered 404 and changes nothing;
   otherwise only the supplied fields, the derived month, year and age and updated_by
   of that exam change, updated_by naming the administrator, and every other row
   stays as it was. *)
C22_SoloLoSuministrado ==
    [][/\ \A id \in IdsActualizados, u \in ActualizacionesTAC :
            actualizar_examen_tac(TokAdmin, id, u)
            => /\ EfectoActualizar(id, "TAC", examenes_tac, examenes_tac', u)
               /\ examenes_rx' = examenes_rx
       /\ \A id \in IdsActualizados, u \in ActualizacionesRX :
            actualizar_examen_rx(TokAdmin, id, u)
            => /\ EfectoActualizar(id, "RX", examenes_rx, examenes_rx', u)
               /\ examenes_tac' = examenes_tac]_vars

(* An update moved the date of an exam the data-entry user created: the administrator
   is its last modifier, its creator, attention mode and contract are as registered *)
C22_Testigo ==
    /\ resp.op = "actualizar_examen_tac"
    /\ resp.status = 200
    /\ \E b \in examenes_base :
          /\ b.id = resp.body.id
          /\ b.fecha_realizacion = F0
          /\ b.updated_by = TokAdmin
          /\ b.created_by = TokIngresador
          /\ b.atencion = TAC0.atencion
          /\ b.contrato = Some(TAC0.contrato)

(* C28: in every reachable state the stored age of every CT exam is the age derived
   from its stored birth date and the stored realization date of its base row, and
   is null when the birth date is absent. *)
C28_EdadConsistente ==
    \A b \in examenes_base : \A t \in FilasDe(examenes_tac, b.id) :
        t.edad = IF t.fecha_nacimiento # None
                 THEN Some(calcular_edad(Val(t.fecha_nacimiento), b.fecha_realizacion))
                 ELSE None

----------------------------------------------------------------------------
(* SpecListado: RX exams of two patients dated in June 2024 and January 2025, and CT
   exams, are registered, some soft-deleted, and listed under each filter and
   window. *)

FiltrosListado ==
    {SinFiltros,
     Con([fecha_inicio |-> Some(F1)], SinFiltros),
     Con([fecha_fin |-> Some(F1)], SinFiltros),
     Con([paciente_rut |-> Some(Rut9)], SinFiltros),
     Con([paciente_rut |-> Some(Rutk)], SinFiltros),
     Con([mes |-> Some(6)], SinFiltros),
     Con([anio |-> Some(2025)], SinFiltros),
     Con([anio |-> Some(0)], SinFiltros)}

Saltos == {0, 1}
Limites == {1, 2}

NextListado ==
    \/ \E rut \in {RutK, Rut9}, fr \in {F1, F2} :
          /\ HayCupo(rut)
          /\ crear_examen_rx(TokIngresador,
                 Con([paciente_rut |-> rut, fecha_realizacion |-> fr], RX0))
    \/ HayCupo(RutK) /\ crear_examen_tac(TokIngresador, TAC0)
    \/ \E id \in 1..MaxExamenes : eliminar_examen_rx(TokAdmin, id)
    \/ \E f \in FiltrosListado, skip \in Saltos, limit \in Limites :
          listar_examenes_rx(TokIngresador, f, skip, limit)
    \/ listar_examenes_tac(TokIngresador, SinFiltros, 0, 100)

SpecListado == Init /\ [][NextListado]_vars

(* The exams a listing of `tipo` under the filters f is to return: not deleted, of
   the type, dated within the range, both ends included, of the patient the RUT
   denotes, of the month and of the year *)
Esperados(tipo, f) ==
    {b \in examenes_base :
        /\ b.tipo_examen = tipo
        /\ b.deleted_at = None
        /\ (f.fecha_inicio # None => b.fecha_realizacion >= Val(f.fecha_inicio))
        /\ (f.fecha_fin # None => b.fecha_realizacion <= Val(f.fecha_fin))
        /\ (f.paciente_rut # None
            => \E p \in pacientes :
                  p.id = b.paciente_id /\ MismoRut(p.rut, Val(f.paciente_rut)))
        /\ (f.mes # None => Mes(b.fecha_realizacion) = Val(f.mes))
        /\ (f.anio # None => Anio(b.fecha_realizacion) = Val(f.anio))}

(* ids is the window [skip, skip + limit) of some order of filas by non-increasing
   realization date *)
EsVentana(ids, filas, skip, limit) ==
    \E orden \in OrdenesPorFecha(filas) :
        /\ Len(ids) = IF Len(orden) <= skip THEN 0
                      ELSE IF Len(orden) - skip < limit THEN Len(orden) - skip
                      ELSE limit
        /\ \A i \in DOMAIN ids : ids[i] = orden[skip + i].id

(* C23: a listing returns the window [skip, skip + limit) of the non-deleted exams
   of its type that satisfy every filter given, by non-increasing realization date,
   and the empty list when the RUT given denotes no patient. *)
C23_VentanaDelListado ==
    [][/\ \A f \in FiltrosListado, skip \in Saltos, limit \in Limites :
            listar_examenes_rx(TokIngresador, f, skip, limit)
            => /\ resp'.status = 200
               /\ EsVentana(resp'.body, Esperados("RX", f), skip, limit)
       /\ listar_examenes_tac(TokIngresador, SinFiltros, 0, 100)
          => /\ resp'.status = 200
             /\ EsVentana(resp'.body, Esperados("TAC", SinFiltros), 0, 100)]_vars

----------------------------------------------------------------------------
(* SpecReportes: CT exams requested by each physician and RX exams, dated in June
   2024 and January 2025, are registered and some soft-deleted; every report is asked
   for periods that have exams and periods that have none. *)

AniosReporte == {2024, 2025}

NextReportes ==
    \/ \E medico \in personal_medico, fr \in {F1, F2} :
          /\ HayCupo(RutK)
          /\ crear_examen_tac(TokIngresador,
                 Con([medico_solicitante_id |-> Some(medico), fecha_realizacion |-> fr],
                     TAC0))
    \/ HayCupo(RutK) /\ crear_examen_rx(TokIngresador, RX0)
    \/ \E id \in 1..MaxExamenes : eliminar_examen_tac(TokAdmin, id)
    \/ \E id \in 1..MaxExamenes : eliminar_examen_rx(TokAdmin, id)
    \/ \E anio \in AniosReporte, tipo_examen \in {None, Some("TAC")} :
          examenes_por_periodo(TokIngresador, anio, tipo_examen)
    \/ \E fecha_inicio \in {None, Some(F2)} :
          estadisticas_generales(TokIngresador, fecha_inicio, None)
    \/ \E anio \in AniosReporte : comparativa_tipos(TokIngresador, anio, None)
    \/ \E anio \in AniosReporte : resumen_mensual(TokIngresador, anio, 6)
    \/ \E anio \in AniosReporte : examenes_por_prevision(TokIngresador, anio, None)
    \/ \E anio \in AniosReporte, limit \in {1, 10} :
          top_medicos_solicitantes(TokIngresador, anio, None, limit)

SpecReportes == Init /\ [][NextReportes]_vars

(* The non-deleted exams of a derived year and month, of a type when one is given *)
ExamenesDelMes(anio, m, tipo_examen) ==
    {b \in examenes_base :
        /\ b.deleted_at = None
        /\ b.anio_realizacion = anio
        /\ b.mes_realizacion = m
        /\ (tipo_examen # None => b.tipo_examen = Val(tipo_examen))}

(* C24: the monthly series of a year, and of a type when given, has exactly the
   entries 1..12, and entry m is the number of non-deleted exams of that year (and
   type) whose derived month is m, 0 when there is none. *)
C24_SerieMensual ==
    [][\A anio \in AniosReporte, tipo_examen \in {None, Some("TAC")} :
          examenes_por_periodo(TokIngresador, anio, tipo_examen)
          => /\ resp'.status = 200
             /\ DOMAIN resp'.body.data = 1..12
             /\ \A m \in 1..12 :
                   resp'.body.data[m] =
                       Cardinality(ExamenesDelMes(anio, m, tipo_examen))]_vars

(* The series of 2024 counts an exam in June and none in March, while a soft-deleted
   exam of June 2024 is in the store *)
C24_Testigo ==
    /\ resp.op = "examenes_por_periodo"
    /\ resp.status = 200
    /\ resp.body.anio = 2024
    /\ resp.body.data[6] = 1
    /\ resp.body.data[3] = 0
    /\ \E b \in examenes_base :
          b.deleted_at # None /\ b.anio_realizacion = 2024 /\ b.mes_realizacion = 6

(* d counts 0 for each key of claves and has no other key *)
CerosPara(d, claves) == DOMAIN d = claves /\ \A k \in claves : d[k] = 0

(* C25: while the store holds no non-deleted exam, every report is answered 200,
   changes nothing and returns a total of 0, 0 distinct patients and a count of 0 for
   each exam type, attention mode and contract type it groups by. *)
C25_ReportesVacios ==
    [][(\A b \in examenes_base : b.deleted_at # None)
       => /\ \A fecha_inicio \in {None, Some(F2)} :
                estadisticas_generales(TokIngresador, fecha_inicio, None)
                => /\ resp'.status = 200 /\ UNCHANGED db
                   /\ resp'.body.total_examenes = 0
                   /\ resp'.body.pacientes_unicos = 0
                   /\ CerosPara(resp'.body.examenes_por_tipo, Tipos)
                   /\ CerosPara(resp'.body.por_atencion, Atenciones)
          /\ \A anio \in AniosReporte :
                resumen_mensual(TokIngresador, anio, 6)
                => /\ resp'.status = 200 /\ UNCHANGED db
                   /\ resp'.body.total_examenes = 0
                   /\ CerosPara(resp'.body.por_tipo, Tipos)
                   /\ CerosPara(resp'.body.por_atencion, Atenciones)
                   /\ CerosPara(resp'.body.por_contrato, {Some(c) : c \in Contratos})
          /\ \A anio \in AniosReporte :
                comparativa_tipos(TokIngresador, anio, None)
                => /\ resp'.status = 200 /\ UNCHANGED db
                   /\ CerosPara(resp'.body.data, Tipos)
          /\ \A anio \in AniosReporte, tipo_examen \in {None, Some("TAC")} :
                examenes_por_periodo(TokIngresador, anio, tipo_examen)
                => /\ resp'.status = 200 /\ UNCHANGED db
                   /\ CerosPara(resp'.body.data, 1..12)
          /\ \A anio \in AniosReporte :
                examenes_por_prevision(TokIngresador, anio, None)
                => resp'.status = 200 /\ UNCHANGED db /\ resp'.body.data = <<>>
          /\ \A anio \in AniosReporte, limit \in {1, 10} :
                top_medicos_solicitantes(TokIngresador, anio, None, limit)
                => resp'.status = 200 /\ UNCHANGED db /\ resp'.body.data = <<>>]_vars

(* The non-deleted CT exams of the year that the physician `medico` requested *)
SolicitadosPor(medico, anio) ==
    {t \in examenes_tac :
        /\ t.medico_solicitante_id = Some(medico)
        /\ \E b \in examenes_base :
              /\ b.id = t.examen_base_id
              /\ b.tipo_examen = "TAC"
              /\ b.deleted_at = None
              /\ b.anio_realizacion = anio}

ConSolicitudes(anio) == {m \in personal_medico : SolicitadosPor(m, anio) # {}}

(* C26: the ranking of a year has min(limit, physicians with exams) entries, by
   non-increasing count, each entry standing for another physician, bearing that
   physician's name and the number of non-deleted CT exams of the year that
   physician requested, and no physician left out has more than one ranked. *)
C26_RankingDeMedicos ==
    [][\A anio \in AniosReporte, limit \in {1, 10} :
          top_medicos_solicitantes(TokIngresador, anio, None, limit)
          => /\ resp'.status = 200
             /\ Len(resp'.body.data) = Len(resp'.body.labels)
             /\ Len(resp'.body.data) =
                   IF Cardinality(ConSolicitudes(anio)) < limit
                   THEN Cardinality(ConSolicitudes(anio)) ELSE limit
             /\ \A i, j \in DOMAIN resp'.body.data :
                   i < j => resp'.body.data[i] >= resp'.body.data[j]
             /\ \E medicos \in [DOMAIN resp'.body.data -> ConSolicitudes(anio)] :
                   /\ \A i, j \in DOMAIN medicos : i # j => medicos[i] # medicos[j]
                   /\ \A i \in DOMAIN medicos :
                         /\ resp'.body.labels[i] = nombre_medico[medicos[i]]
                         /\ resp'.body.data[i] =
                               Cardinality(SolicitadosPor(medicos[i], anio))
                   /\ \A m \in ConSolicitudes(anio) :
                         (\A i \in DOMAIN medicos : medicos[i] # m)
                         => \A i \in DOMAIN medicos :
                               Cardinality(SolicitadosPor(m, anio))
                                   <= resp'.body.data[i]]_vars

----------------------------------------------------------------------------
(* SpecValidador: validar_rut_chileno applied on its own to one string. The strings are a
   body, a last character and a way of writing the separators: bodies whose check
   character is "K", "0" and a digit, a body of eight digits, one too short, one with
   a letter and one with a superscript digit. *)

CuerposDeRut ==
    {<<"1", "0", "0", "0", "0", "0", "5">>,
     <<"1", "0", "0", "0", "0", "1", "3">>,
     <<"1", "2", "3", "4", "5", "6", "7">>,
     <<"1", "2", "3", "4", "5", "6", "7", "8">>,
     <<"1", "0", "0", "0", "0", "0">>,
     <<"1", "a", "0", "0", "0", "0", "5">>,
     <<"1", "2", "3", "4", "5", "6", "^2">>}

FinalesDeRut == Digitos \cup {"K", "k", "x"}

Escrituras(cuerpo, final) ==
    {cuerpo \o <<final>>,
     cuerpo \o <<"-", final>>,
     <<cuerpo[1], ".">> \o SubSeq(cuerpo, 2, 4) \o <<".">>
         \o SubSeq(cuerpo, 5, Len(cuerpo)) \o <<"-", final>>}

RutsDeEntrada ==
    UNION {Escrituras(cuerpo, final) : cuerpo \in CuerposDeRut, final \in FinalesDeRut}

InitValidador ==
    /\ usuarios = {Admin, Ingresador}
    /\ pacientes = {}
    /\ examenes_base = {}
    /\ examenes_tac = {}
    /\ examenes_rx = {}
    /\ examenes_eco = {}
    /\ seq_usuario = 3
    /\ seq_paciente = 1
    /\ seq_examen = 1
    /\ reloj = 1
    /\ sesiones = <<>>
    /\ credenciales = {}
    /\ puro \in {[rut |-> rut, resultado |-> None] : rut \in RutsDeEntrada}
    /\ resp = SinRespuesta

aplicar_validar_rut_chileno ==
    /\ puro.resultado = None
    /\ puro' = [puro EXCEPT !.resultado = Some(llamar_validar_rut_chileno(puro.rut))]
    /\ UNCHANGED <<db, sesiones, credenciales, resp>>

NextValidador == aplicar_validar_rut_chileno

SpecValidador == InitValidador /\ [][NextValidador]_vars

(* The reference: the value of a decimal digit, the weight 2..7 of the k-th digit from
   the right, the weighted sum of the k rightmost digits, the check character *)
ValorReferencia ==
    ("0" :> 0) @@ ("1" :> 1) @@ ("2" :> 2) @@ ("3" :> 3) @@ ("4" :> 4) @@
    ("5" :> 5) @@ ("6" :> 6) @@ ("7" :> 7) @@ ("8" :> 8) @@ ("9" :> 9)

PesoReferencia(k) == 2 + ((k - 1) % 6)

RECURSIVE SumaReferencia(_, _)
SumaReferencia(digitos, k) ==
    IF k = 0 THEN 0
    ELSE ValorReferencia[digitos[Len(digitos) - k + 1]] * PesoReferencia(k)
         + SumaReferencia(digitos, k - 1)

CaracterReferencia(digitos) ==
    LET v == 11 - (SumaReferencia(digitos, Len(digitos)) % 11)
    IN  IF v = 11 THEN "0"
        ELSE IF v = 10 THEN "K"
        ELSE CHOOSE c \in DOMAIN ValorReferencia : ValorReferencia[c] = v

ReferenciaModulo11(rut0) ==
    LET s == upper(limpiar_rut(rut0))
    IN  /\ Len(s) >= 8
        /\ \A i \in 1..(Len(s) - 1) : s[i] \in DOMAIN ValorReferencia
        /\ s[Len(s)] = CaracterReferencia(SubSeq(s, 1, Len(s) - 1))

(* C27: on every string the validator raises nothing and returns what the reference
   modulo-11 implementation returns: true exactly when, separators stripped and
   upper-cased, the string has at least 8 characters, all but the last are digits and
   the last is the check character of those digits (11 -> "0", 10 -> "K"). *)
C27_ValidadorSegunReferencia ==
    puro.resultado # None
    => /\ Val(puro.resultado).excepcion = None
       /\ Val(puro.resultado).retorno = Some(ReferenciaModulo11(puro.rut))

----------------------------------------------------------------------------
(* SpecSimultaneo: on one CT exam, requests of actualizar_examen_tac,
   marcar_examen_revision and eliminar_examen_tac by either administrator run
   concurrently, each on its own store session.  A request is its SELECT of the exam
   (with deleted_at IS NULL) and, the row found, its commit: the UPDATE by primary key
   of the columns the handler changed on the object it read.  Nothing locks the row
   between the two, and the steps of the requests interleave freely. *)

ClasesDeCambio == {"actualizar", "revision", "eliminar"}

ActualizacionSimultanea == [atencion |-> Some("Cerrada")]

OperacionDe(clase) ==
    CASE clase = "actualizar" -> "actualizar_examen_tac"
      [] clase = "revision" -> "marcar_examen_revision"
      [] clase = "eliminar" -> "eliminar_examen_tac"

(* The dependencies of the three handlers: require_admin *)
iniciar_cambio(s, tok, clase, examen_id) ==
    /\ s \notin DOMAIN sesiones
    /\ require_admin(tok).status = 200
    /\ sesiones' = (s :> [pc |-> "select", clase |-> clase, tok |-> tok,
                          examen_id |-> examen_id, status |-> 0,
                          base |-> None, tac |-> None]) @@ sesiones
    /\ UNCHANGED <<db, puro, credenciales, resp>>

(* The SELECT of the exam, filtered on deleted_at IS NULL (and on the type, but for
   the review flag): no row ends the request with 404, a row is held in memory *)
seleccionar_examen(s) ==
    LET ses == sesiones[s]
        hallados == IF ses.clase = "revision"
                    THEN {e \in examenes_base :
                             e.id = ses.examen_id /\ e.deleted_at = None}
                    ELSE buscar_examen(ses.examen_id, "TAC")
    IN  /\ ses.pc = "select"
        /\ IF hallados = {}
           THEN /\ sesiones' = [sesiones EXCEPT ![s] =
                        [ses EXCEPT !.pc = "fin", !.status = 404]]
                /\ Responder(OperacionDe(ses.clase), ses.tok,
                             [examen_id |-> ses.examen_id], 404,
                             "Examen no encontrado", <<>>)
           ELSE /\ sesiones' = [sesiones EXCEPT ![s] =
                        [ses EXCEPT !.pc = "commit",
                                    !.base = Some(CHOOSE e \in hallados : TRUE)]]
                /\ UNCHANGED resp
        /\ UNCHANGED <<db, puro, credenciales>>

(* The UPDATE of the flush: the columns whose value the handler changed on the
   object it read are written to the row as it is now, the others are left *)
Escribir(actual, leido, nuevo) ==
    [c \in DOMAIN actual |-> IF nuevo[c] # leido[c] THEN nuevo[c] ELSE actual[c]]

(* What each handler assigns to the object it read *)
CambioDe(ses) ==
    LET leido == Val(ses.base)
    IN  CASE ses.clase = "actualizar" ->
                ActualizarBase(leido, ActualizacionSimultanea, Val(ses.tok))
          [] ses.clase = "revision" ->
                [leido EXCEPT !.en_revision = Revision0.en_revision,
                              !.motivo_revision = Revision0.motivo]
          [] ses.clase = "eliminar" ->
                [leido EXCEPT !.deleted_at = Some(reloj),
                              !.updated_by = Some(Val(ses.tok))]

(* db.commit() and the response *)
confirmar_cambio(s) ==
    LET ses == sesiones[s]
        leido == Val(ses.base)
        actual == CHOOSE e \in examenes_base : e.id = leido.id
        escrito == Escribir(actual, leido, CambioDe(ses))
        status == IF ses.clase = "eliminar" THEN 204 ELSE 200
    IN  /\ ses.pc = "commit"
        /\ examenes_base' = (examenes_base \ {actual}) \cup {escrito}
        /\ reloj' = IF ses.clase = "eliminar" THEN reloj + 1 ELSE reloj
        /\ sesiones' = [sesiones EXCEPT ![s] =
                [ses EXCEPT !.pc = "fin", !.status = status]]
        /\ Responder(OperacionDe(ses.clase), ses.tok, [examen_id |-> ses.examen_id],
                     status, "", <<>>)
        /\ UNCHANGED <<usuarios, pacientes, examenes_tac, examenes_rx, examenes_eco,
                       seq_usuario, seq_paciente, seq_examen, puro, credenciales>>

NextSimultaneo ==
    \/ examenes_base = {} /\ crear_examen_tac(TokIngresador, TAC0)
    \/ seq_usuario <= MaxUsuarios /\ registrar_admin(Admin2)
    \/ \E s \in Sesiones, tok \in {TokAdmin, TokAdmin2}, clase \in ClasesDeCambio,
          e \in examenes_base :
          iniciar_cambio(s, tok, clase, e.id)
    \/ \E s \in DOMAIN sesiones : seleccionar_examen(s)
    \/ \E s \in DOMAIN sesiones : confirmar_cambio(s)

SpecSimultaneo == Init /\ [][NextSimultaneo]_vars

(* C30: under every interleaving, an update or a review flag that commits does so on
   an exam that is not deleted when it commits (it committed before the deletion, or
   else it ended with 404), and the step leaves the updated_by of a deleted exam as
   the deletion wrote it. *)
C30_SinCambioTrasLaBaja ==
    [][\A s \in DOMAIN sesiones :
          (/\ sesiones[s].clase \in {"actualizar", "revision"}
           /\ sesiones[s].pc = "commit"
           /\ sesiones'[s].pc = "fin"
           /\ sesiones'[s].status = 200)
          => \A e \in examenes_base :
                e.id = sesiones[s].examen_id
                => /\ e.deleted_at = None
                   /\ \A n \in examenes_base' :
                         (n.id = e.id /\ n.deleted_at # None)
                         => n.updated_by = e.updated_by]_vars

====
